---- MODULE Spec2Model ----
(***************************************************************************)
(* Filter state and address synchronisation of the Google Search Advanced  *)
(* Filters userscript (src/google-search-filters.user.js).                  *)
(*                                                                         *)
(* Strings that the code searches or rewrites (the free-text query q, the  *)
(* site-restriction fragments, lr) are sequences of atoms.  An atom is a   *)
(* run of characters that the code never splits: " " (one white-space      *)
(* character), "site:" (the literal five characters), "lang_", and words   *)
(* without white space or colon such as "foo" or "reddit.com".  On such    *)
(* sequences String.includes is contiguous sub-sequence search and the     *)
(* regular expressions of applyFilters act atom by atom.                   *)
(***************************************************************************)
EXTENDS Integers, Sequences, FiniteSets, TLC

\* ------------------------------------------------------------------ bounds
MaxLoads == 2
MaxActs == 2
MaxToasts == 3
MaxToastTime == 1500
MaxCalls == 3
MaxDebounceTime == 380

\* --------------------------------------------------------------- constants
NULL == "<null>"

INITIALIZATION_DELAY == 200
APPLY_DELAY == 200
NAVIGATE_DELAY == 800
MAX_CUSTOM_SITES == 50
MAX_SITE_NAME_LENGTH == 20
DEBOUNCE_DELAY == 150
DEDUP_WINDOW == 1000

CatOrder == <<"searchLang", "interfaceLang", "region", "site", "time">>

Cats == {CatOrder[i] : i \in 1..Len(CatOrder)}

DefaultValue(filterType) ==
    IF filterType \in {"interfaceLang", "region"} THEN "auto" ELSE "all"

DEFAULT_SITES == <<"reddit", "github", "eksisozluk", "donanimhaber">>

DefaultSiteKeys == {DEFAULT_SITES[i] : i \in 1..Len(DEFAULT_SITES)}

SiteQuery(domain) == <<"site:">> \o domain

filtersSearchLang == <<"all", "tr", "en">>

filtersInterfaceLang ==
    << [code |-> "auto", googleLang |-> NULL],
       [code |-> "tr", googleLang |-> "tr"],
       [code |-> "en", googleLang |-> "en"] >>

filtersRegion ==
    << [code |-> "auto", googleRegion |-> NULL],
       [code |-> "tr", googleRegion |-> "TR"],
       [code |-> "us", googleRegion |-> "US"] >>

filtersTime ==
    << [code |-> "all", param |-> ""],
       [code |-> "day", param |-> "d"],
       [code |-> "week", param |-> "w"],
       [code |-> "month", param |-> "m"],
       [code |-> "year", param |-> "y"],
       [code |-> "2year", param |-> "custom:2y"] >>

BuiltinSites ==
    << [key |-> "reddit", query |-> SiteQuery(<<"reddit.com">>)],
       [key |-> "github", query |-> SiteQuery(<<"github.com">>)],
       [key |-> "eksisozluk", query |-> SiteQuery(<<"eksisozluk.com">>)],
       [key |-> "donanimhaber", query |-> SiteQuery(<<"forum.donanimhaber.com">>)] >>

\* Property names every plain object inherits from Object.prototype: a
\* bracket lookup filters.x[name] finds them although they are no filter.
ObjectPrototypeKeys == {"constructor"}

\* ------------------------------------------------------------ atom strings
IsSpace(a) == a = " "

Includes(s, t) ==
    \E i \in 0..(Len(s) - Len(t)) : SubSeq(s, i + 1, i + Len(t)) = t

\* index of the first atom at or after i that is not white space
RECURSIVE SkipSpaces(_, _)
SkipSpaces(s, i) ==
    IF i <= Len(s) /\ IsSpace(s[i]) THEN SkipSpaces(s, i + 1) ELSE i

\* index of the first atom at or after i that is white space
RECURSIVE SkipNonSpaces(_, _)
SkipNonSpaces(s, i) ==
    IF i <= Len(s) /\ ~IsSpace(s[i]) THEN SkipNonSpaces(s, i + 1) ELSE i

\* s.slice(i-1).replace(/\s*site:\S+/, ''), the expression without its g
\* flag, which removes the first match only: the variant against which the
\* removal of every site token is measured
StripFirstSiteFrom(s, i) ==
    LET hits == {k \in i..Len(s) :
                    LET j == SkipSpaces(s, k)
                    IN j + 1 <= Len(s) /\ s[j] = "site:" /\ ~IsSpace(s[j + 1])}
    IN IF hits = {} THEN SubSeq(s, i, Len(s))
       ELSE LET k == CHOOSE h \in hits : \A g \in hits : h <= g
            IN SubSeq(s, i, k - 1)
               \o SubSeq(s, SkipNonSpaces(s, SkipSpaces(s, k) + 1), Len(s))

\* s.slice(i-1).replace(/\s*site:\S+/g, '')
RECURSIVE StripSiteFrom(_, _)
StripSiteFrom(s, i) ==
    IF i > Len(s) THEN <<>>
    ELSE LET j == SkipSpaces(s, i)
         IN IF j + 1 <= Len(s) /\ s[j] = "site:" /\ ~IsSpace(s[j + 1])
            THEN StripSiteFrom(s, SkipNonSpaces(s, j + 1))
            ELSE <<s[i]>> \o StripSiteFrom(s, i + 1)

\* s.slice(i-1).replace(/\s+/g, ' ')
RECURSIVE CollapseFrom(_, _)
CollapseFrom(s, i) ==
    IF i > Len(s) THEN <<>>
    ELSE IF IsSpace(s[i]) THEN <<" ">> \o CollapseFrom(s, SkipSpaces(s, i))
    ELSE <<s[i]>> \o CollapseFrom(s, i + 1)

RECURSIVE TrimEnd(_)
TrimEnd(s) ==
    IF Len(s) > 0 /\ IsSpace(s[Len(s)]) THEN TrimEnd(SubSeq(s, 1, Len(s) - 1)) ELSE s

Trim(s) == LET t == TrimEnd(s) IN SubSeq(t, SkipSpaces(t, 1), Len(t))

\* `${a} ${b}`
Join(a, b) == a \o <<" ">> \o b

\* ------------------------------------------------------------------- dates
\* A Date object is its local calendar fields [y, m0, d] with the month
\* counted from 0, as getFullYear, getMonth and getDate return them.  A date
\* in an address is the text M/D/YYYY, held as <<month, day, year>>.
NoDate == <<0, 0, 0>>

IsLeap(y) == (y % 4 = 0 /\ y % 100 # 0) \/ y % 400 = 0

DaysInMonth(m0, y) ==
    IF m0 = 1 THEN (IF IsLeap(y) THEN 29 ELSE 28)
    ELSE IF m0 \in {3, 5, 8, 10} THEN 30 ELSE 31

\* new Date(year, monthIndex, day): months and days beyond the calendar
\* roll over into the following year or month
RECURSIVE NewDate(_, _, _)
NewDate(y, m0, d) ==
    IF m0 > 11 THEN NewDate(y + 1, m0 - 12, d)
    ELSE IF d > DaysInMonth(m0, y) THEN NewDate(y, m0 + 1, d - DaysInMonth(m0, y))
    ELSE [y |-> y, m0 |-> m0, d |-> d]

RECURSIVE DaysBeforeMonth(_, _)
DaysBeforeMonth(m0, y) ==
    IF m0 <= 0 THEN 0 ELSE DaysBeforeMonth(m0 - 1, y) + DaysInMonth(m0 - 1, y)

\* the Date's time value in days (both ends of a range are local midnights)
DayNumber(date) ==
    LET y == date.y - 1
    IN y * 365 + (y \div 4) - (y \div 100) + (y \div 400)
       + DaysBeforeMonth(date.m0, date.y) + date.d

\* twoYearsAgo.setFullYear(today.getFullYear() - 2)
TwoYearsBefore(date) == NewDate(date.y - 2, date.m0, date.d)

\* ------------------------------------------------------------- the address
\* tbs: kind "" is absent or empty, "qdr" is the text 'qdr:' + p, "raw" is
\* the text p (holding no 'qdr:' and not starting with 'cdr:1,cd_min:'),
\* "cdr" is 'cdr:1,cd_min:' + min + ',cd_max:' + max with the dates printed
\* as M/D/YYYY (min = NoDate: the text after the prefix is no date pair).
Tbs(kind, p, min, max) == [kind |-> kind, p |-> p, min |-> min, max |-> max]

NoTbs == Tbs("", "", NoDate, NoDate)

\* hl, gl: "" is absent or empty (the code reads every parameter with
\* get(p) || '').  q: qPresent tells whether the query string holds the
\* parameter q; oq tells whether it holds another parameter whose name ends
\* in q (such as oq), whose 'oq=' also contains the text 'q='.
Url(path, qPresent, q, oq, lr, tbs, hl, gl) ==
    [path |-> path, qPresent |-> qPresent, q |-> q, oq |-> oq,
     lr |-> lr, tbs |-> tbs, hl |-> hl, gl |-> gl]

isSearchPage(url) == url.path = "/search" /\ (url.qPresent \/ url.oq)

formatSearchDate(date) == <<date.m0 + 1, date.d, date.y>>

createTimeFilterValue(timeParam, now) ==
    IF timeParam = "custom:2y"
    THEN Tbs("cdr", "", formatSearchDate(TwoYearsBefore(now)), formatSearchDate(now))
    ELSE Tbs("qdr", timeParam, NoDate, NoDate)

\* ------------------------------------------------------- catalog look-ups
SiteKeys(sites) == {sites[i].key : i \in 1..Len(sites)}

SiteIndex(sites, key) == CHOOSE i \in 1..Len(sites) : sites[i].key = key

\* filters.site[key]: an own entry, an inherited property (an object with
\* no query) or undefined
SiteLookup(sites, key) ==
    IF key \in SiteKeys(sites) THEN "own"
    ELSE IF key \in ObjectPrototypeKeys THEN "inherited" ELSE "undefined"

SiteQueryOf(sites, key) == sites[SiteIndex(sites, key)].query

SeqKeys(entries) == {entries[i].code : i \in 1..Len(entries)}

SearchLangKeys == {filtersSearchLang[i] : i \in 1..Len(filtersSearchLang)}

EntryOf(entries, code) == entries[CHOOSE i \in 1..Len(entries) : entries[i].code = code]

\* the codes of a category that filters[filterType] holds as own keys
CatalogKeys(filterType, sites) ==
    CASE filterType = "searchLang" -> SearchLangKeys
      [] filterType = "interfaceLang" -> SeqKeys(filtersInterfaceLang)
      [] filterType = "region" -> SeqKeys(filtersRegion)
      [] filterType = "time" -> SeqKeys(filtersTime)
      [] filterType = "site" -> SiteKeys(sites)

\* ---------------------------------------------------------- inbound parse
\* the first entry of filters.site whose query the free text includes, or 0
RECURSIVE FirstSiteMatch(_, _, _)
FirstSiteMatch(sites, query, i) ==
    IF i > Len(sites) THEN 0
    ELSE IF Includes(query, sites[i].query) THEN i
    ELSE FirstSiteMatch(sites, query, i + 1)

\* Object.entries(filters.interfaceLang).find(... googleLang === hl)?.[0] || 'auto'
InterfaceLangOfHl(hl) ==
    IF \E i \in 1..Len(filtersInterfaceLang) : filtersInterfaceLang[i].googleLang = hl
    THEN filtersInterfaceLang[CHOOSE i \in 1..Len(filtersInterfaceLang) :
                                 filtersInterfaceLang[i].googleLang = hl].code
    ELSE "auto"

\* gl compared with the keys of filters.region instead of googleRegion: the
\* variant against which the look-up by external code is measured
RegionOfGlByKey(gl) == IF gl \in SeqKeys(filtersRegion) THEN gl ELSE "auto"

\* Object.entries(filters.region).find(... googleRegion === gl)?.[0] || 'auto'
RegionOfGl(gl) ==
    IF \E i \in 1..Len(filtersRegion) : filtersRegion[i].googleRegion = gl
    THEN filtersRegion[CHOOSE i \in 1..Len(filtersRegion) :
                          filtersRegion[i].googleRegion = gl].code
    ELSE "auto"

\* lr.replace('lang_', ''): the first 'lang_' is dropped
RECURSIVE DropFirstLang(_)
DropFirstLang(lr) ==
    IF lr = <<>> THEN <<>>
    ELSE IF Head(lr) = "lang_" THEN Tail(lr)
    ELSE <<Head(lr)>> \o DropFirstLang(Tail(lr))

\* filters.searchLang[langCode] is truthy
SearchLangHas(langCode) ==
    Len(langCode) = 1 /\ langCode[1] \in SearchLangKeys \cup ObjectPrototypeKeys

parseDate(dateStr) == NewDate(dateStr[3], dateStr[1] - 1, dateStr[2])

\* the span counted in calendar years (the difference of the year numbers):
\* the variant against which the thresholds 1.8 and 2.2 are measured
TwoYearSpanWholeYears(startDate, endDate) == endDate.y - startDate.y = 2

\* yearsDiff >= 1.8 && yearsDiff <= 2.2 with yearsDiff = days / 365.25
TwoYearSpan(startDate, endDate) ==
    LET days == DayNumber(endDate) - DayNumber(startDate)
    IN days * 1000 >= 18 * 36525 /\ days * 1000 <= 22 * 36525

syncCustomDateRange(time, tbs) ==
    IF tbs.min = NoDate \/ tbs.max = NoDate THEN time
    ELSE IF TwoYearSpan(parseDate(tbs.min), parseDate(tbs.max)) THEN "2year"
    ELSE time

TimeOfTbs(time, tbs) ==
    IF tbs.kind = "cdr" THEN syncCustomDateRange(time, tbs)
    ELSE IF \E i \in 1..Len(filtersTime) : filtersTime[i].param = tbs.p
         THEN filtersTime[CHOOSE i \in 1..Len(filtersTime) : filtersTime[i].param = tbs.p].code
         ELSE time

syncFiltersFromURL(cf, sites, url) ==
    LET c1 == IF url.hl # "" THEN [cf EXCEPT !["interfaceLang"] = InterfaceLangOfHl(url.hl)]
              ELSE cf
        c2 == IF url.gl # "" THEN [c1 EXCEPT !["region"] = RegionOfGl(url.gl)] ELSE c1
        siteEntry == FirstSiteMatch(sites, url.q, 1)
        c3 == IF siteEntry # 0 THEN [c2 EXCEPT !["site"] = sites[siteEntry].key] ELSE c2
        langCode == DropFirstLang(url.lr)
        c4 == IF url.lr # <<>> /\ SearchLangHas(langCode)
              THEN [c3 EXCEPT !["searchLang"] = langCode[1]] ELSE c3
        c5 == IF url.tbs.kind # "" THEN [c4 EXCEPT !["time"] = TimeOfTbs(c4["time"], url.tbs)]
              ELSE c4
    IN IF isSearchPage(url) THEN c5 ELSE c2

\* --------------------------------------------------------- outbound apply
\* searchQuery.replace(/\s*site:\S+/g, '').replace(/\s+/g, ' ').trim()
CleanQuery(searchQuery) == Trim(CollapseFrom(StripSiteFrom(searchQuery, 1), 1))

\* filters.time[code].param can be read and is a string
TimeParamReadable(code) == code \in SeqKeys(filtersTime)

\* the free text applyFilters writes; filters.site[site].query of an
\* inherited property is undefined and prints as 'undefined'
AppliedQuery(url, cf, sites) ==
    IF cf["site"] # "all"
    THEN Trim(Join(CleanQuery(url.q),
                   IF SiteLookup(sites, cf["site"]) = "own"
                   THEN SiteQueryOf(sites, cf["site"])
                   ELSE <<"undefined">>))
    ELSE CleanQuery(url.q)

AppliedHl(url, cf) ==
    IF cf["interfaceLang"] # "auto"
    THEN IF cf["interfaceLang"] \in SeqKeys(filtersInterfaceLang)
            /\ EntryOf(filtersInterfaceLang, cf["interfaceLang"]).googleLang # NULL
         THEN EntryOf(filtersInterfaceLang, cf["interfaceLang"]).googleLang
         ELSE url.hl
    ELSE ""

AppliedGl(url, cf) ==
    IF cf["region"] # "auto"
    THEN IF cf["region"] \in SeqKeys(filtersRegion)
            /\ EntryOf(filtersRegion, cf["region"]).googleRegion # NULL
         THEN EntryOf(filtersRegion, cf["region"]).googleRegion
         ELSE url.gl
    ELSE ""

\* applyFilters ends in a TypeError, before it navigates, when the site or
\* the time selection has no entry to read
applyFiltersThrows(cf, sites) ==
    \/ cf["site"] # "all" /\ SiteLookup(sites, cf["site"]) = "undefined"
    \/ cf["time"] # "all" /\ ~TimeParamReadable(cf["time"])

\* the address applyFilters assigns to window.location.href
applyFilters(url, cf, sites, now) ==
    [url EXCEPT
        !.qPresent = TRUE,
        !.q = AppliedQuery(url, cf, sites),
        !.lr = IF cf["searchLang"] # "all" THEN <<"lang_", cf["searchLang"]>> ELSE <<>>,
        !.tbs = IF cf["time"] # "all"
                THEN createTimeFilterValue(EntryOf(filtersTime, cf["time"]).param, now)
                ELSE NoTbs,
        !.hl = AppliedHl(url, cf),
        !.gl = AppliedGl(url, cf)]

\* ------------------------------------------------------- consistency check
SiteMatches(url, cf, sites) ==
    cf["site"] # "all" =>
        Includes(url.q, IF SiteLookup(sites, cf["site"]) = "own"
                        THEN SiteQueryOf(sites, cf["site"]) ELSE <<"undefined">>)

SearchLangMatches(url, cf) ==
    cf["searchLang"] # "all" => url.lr = <<"lang_", cf["searchLang"]>>

TimeMatches(url, cf) ==
    cf["time"] # "all" =>
        LET timeParam == EntryOf(filtersTime, cf["time"]).param
        IN IF timeParam = "custom:2y" THEN url.tbs.kind = "cdr"
           ELSE url.tbs = Tbs("qdr", timeParam, NoDate, NoDate)

\* the hl test without its else branch (hl !== '' under 'auto'): the variant
\* against which that branch is measured
InterfaceLangMatchesNoAuto(url, cf) ==
    cf["interfaceLang"] # "auto" =>
        ((cf["interfaceLang"] \in SeqKeys(filtersInterfaceLang)
          /\ EntryOf(filtersInterfaceLang, cf["interfaceLang"]).googleLang # NULL)
         => url.hl = EntryOf(filtersInterfaceLang, cf["interfaceLang"]).googleLang)

InterfaceLangMatches(url, cf) ==
    IF cf["interfaceLang"] # "auto"
    THEN (cf["interfaceLang"] \in SeqKeys(filtersInterfaceLang)
          /\ EntryOf(filtersInterfaceLang, cf["interfaceLang"]).googleLang # NULL)
         => url.hl = EntryOf(filtersInterfaceLang, cf["interfaceLang"]).googleLang
    ELSE url.hl = ""

RegionMatches(url, cf) ==
    IF cf["region"] # "auto"
    THEN (cf["region"] \in SeqKeys(filtersRegion)
          /\ EntryOf(filtersRegion, cf["region"]).googleRegion # NULL)
         => url.gl = EntryOf(filtersRegion, cf["region"]).googleRegion
    ELSE url.gl = ""

\* "true", "false", or "throw" when reading the entry of the site or of the
\* time selection raises a TypeError (tests run in the order of the code)
checkCurrentFilters(url, cf, sites) ==
    IF cf["site"] # "all" /\ SiteLookup(sites, cf["site"]) = "undefined" THEN "throw"
    ELSE IF ~SiteMatches(url, cf, sites) THEN "false"
    ELSE IF ~SearchLangMatches(url, cf) THEN "false"
    ELSE IF cf["time"] # "all" /\ ~TimeParamReadable(cf["time"]) THEN "throw"
    ELSE IF ~TimeMatches(url, cf) THEN "false"
    ELSE IF ~InterfaceLangMatches(url, cf) THEN "false"
    ELSE IF ~RegionMatches(url, cf) THEN "false"
    ELSE "true"

\* ------------------------------------------------------------------- state
VARIABLES
    localStorage,           \* the string-valued keys: key -> string or NULL
    storedCustomSites,      \* the key googleSearchCustomSites
    filtersSite,            \* filters.site, in property order
    persistenceSettings,
    currentFilters,
    location,               \* window.location of the loaded document
    href,                   \* the address assigned to window.location.href, if any
    timers,                 \* pending setTimeout callbacks, in scheduling order
    advancedSearchInitialized,
    widget,                 \* createWidget has built the panel and its handlers
    today,
    loads,                  \* documents loaded so far
    acts,                   \* user operations so far
    initRuns,               \* runs of the delayed initialisation in this document
    correctiveNavs,         \* navigations the delayed initialisation issued in it
    lastOp,                 \* the last step taken and its arguments
    clock,                  \* Date.now(), in ms since the document was loaded
    toastState,             \* lastMessage and lastTimestamp of showToast
    toastLog,               \* the calls of showToast so far: text, time, outcome
    debounceTimers,         \* pending setTimeout callbacks of the debounced handlers
    timeout,                \* the variable timeout of each debounced handler
    debounceLog             \* the calls and the runs of the debounced handlers so far

\* The notifications and the debounced window handlers are followed in
\* SpecToast and SpecDebounce. The other specifications leave them out, as
\* they leave out the rest of the presentation layer: there these variables
\* keep their initial values.
uiVars == <<clock, toastState, toastLog, debounceTimers, timeout, debounceLog>>

vars == <<localStorage, storedCustomSites, filtersSite, persistenceSettings,
          currentFilters, location, href, timers, advancedSearchInitialized,
          widget, today, loads, acts, initRuns, correctiveNavs, lastOp,
          clock, toastState, toastLog, debounceTimers, timeout, debounceLog>>

\* the debounced handlers setupResponsiveHandlers registers
Handlers == {"resize", "scroll"}

\* lastMessage: null, which is === to no text
NoMessage == <<NULL>>

\* toastState as declared, the clock at the load, no call made so far
UiInit ==
    /\ clock = 0
    /\ toastState = [lastMessage |-> NoMessage, lastTimestamp |-> 0]
    /\ toastLog = <<>>
    /\ debounceTimers = {}
    /\ timeout = [h \in Handlers |-> 0]
    /\ debounceLog = <<>>

getStorageKey(filterType) ==
    CASE filterType = "searchLang" -> "googleSearchSearchLang"
      [] filterType = "interfaceLang" -> "googleSearchInterfaceLang"
      [] filterType = "region" -> "googleSearchRegion"
      [] filterType = "site" -> "googleSearchSite"
      [] filterType = "time" -> "googleSearchTime"

getPersistStorageKey(filterType) ==
    CASE filterType = "searchLang" -> "googleSearchPersistSearchLang"
      [] filterType = "interfaceLang" -> "googleSearchPersistInterfaceLang"
      [] filterType = "region" -> "googleSearchPersistRegion"
      [] filterType = "site" -> "googleSearchPersistSite"
      [] filterType = "time" -> "googleSearchPersistTime"

StorageKeys == {getStorageKey(c) : c \in Cats} \cup {getPersistStorageKey(c) : c \in Cats}

EmptyStorage == [k \in StorageKeys |-> NULL]

NoCustomSites == [kind |-> "absent", sites |-> <<>>]

Op(name, cat, value, outcome) ==
    [name |-> name, cat |-> cat, value |-> value, outcome |-> outcome]

\* ------------------------------------------------------------- script start
\* Object.assign(filters.site, validatedSites): a stored key that exists
\* keeps its place and takes the stored data, a new key is appended
AssignSites(sites, stored) ==
    LET valid == SelectSeq(stored, LAMBDA e : e.query # <<>>)
        replaced == [i \in 1..Len(sites) |->
                        IF \E j \in 1..Len(valid) : valid[j].key = sites[i].key
                        THEN valid[CHOOSE j \in 1..Len(valid) : valid[j].key = sites[i].key]
                        ELSE sites[i]]
    IN replaced \o SelectSeq(valid, LAMBDA e : e.key \notin SiteKeys(sites))

\* The key googleSearchCustomSites: kind "absent" (no key, or the empty
\* string), "json" (the text of an object, its entries in sites), "scalar"
\* (JSON that is no object: a number, a string, null) or "corrupt" (text
\* that JSON.parse rejects).
loadCustomSites(stored) ==
    IF stored.kind = "json" THEN AssignSites(BuiltinSites, stored.sites) ELSE BuiltinSites

\* loadCustomSites without the removeItem of its catch: the variant against
\* which the deletion of the corrupt key is measured
StoreAfterLoadKept(stored) == stored

\* the key after loadCustomSites: the catch of the parse error removes it
StoreAfterLoad(stored) ==
    IF stored.kind = "corrupt" THEN [kind |-> "absent", sites |-> <<>>] ELSE stored

LoadPersistenceSettings(ls) ==
    [c \in Cats |->
        IF c \in {"searchLang", "interfaceLang"}
        THEN ls[getPersistStorageKey(c)] # "false"
        ELSE ls[getPersistStorageKey(c)] = "true"]

\* persistenceSettings.x ? (localStorage.getItem(key) || default) : default
InitialFilter(ls, filterType) ==
    IF LoadPersistenceSettings(ls)[filterType]
    THEN IF ls[getStorageKey(filterType)] \in {NULL, ""}
         THEN DefaultValue(filterType) ELSE ls[getStorageKey(filterType)]
    ELSE DefaultValue(filterType)

LoadCurrentFilters(ls) == [c \in Cats |-> InitialFilter(ls, c)]

NoUrl == Url("", FALSE, <<>>, FALSE, <<>>, NoTbs, "", "")

\* a pending setTimeout callback; tracked: its id is in globalState.timeouts
Timer(fn, delay, url, tracked) ==
    [fn |-> fn, delay |-> delay, url |-> url, tracked |-> tracked]

NoHref == [pending |-> FALSE, url |-> NoUrl]

\* init() without its guard on window.advancedSearchInitialized: the variant
\* against which the guard's effect is measured
initNeverSkips(initialized) == FALSE

\* init(): a second call in the same document finds the window flag set
initSkips(initialized) == initialized

init(initialized, pending) ==
    IF initSkips(initialized) THEN pending
    ELSE Append(pending, Timer("delayedInitialization", INITIALIZATION_DELAY, NoUrl, TRUE))

\* what the top-level code of the script and its call of init() leave behind
\* in a freshly loaded document at the address url
ScriptStart(url) ==
    /\ location' = url
    /\ filtersSite' = loadCustomSites(storedCustomSites)
    /\ persistenceSettings' = LoadPersistenceSettings(localStorage)
    /\ currentFilters' = LoadCurrentFilters(localStorage)
    /\ advancedSearchInitialized' = TRUE
    /\ timers' = init(FALSE, <<>>)
    /\ href' = NoHref
    /\ widget' = FALSE
    /\ initRuns' = 0
    /\ correctiveNavs' = 0
    /\ storedCustomSites' = StoreAfterLoad(storedCustomSites)
    /\ loads' = IF loads < MaxLoads THEN loads + 1 ELSE loads
    /\ UNCHANGED <<localStorage, today, acts>>
    /\ UNCHANGED uiVars

\* ------------------------------------------------------------------ timers
\* setTimeout callbacks run in the order of their deadlines: a callback can
\* run when no callback scheduled before it has a delay as short or shorter
CanFire(i) == \A j \in 1..(i - 1) : timers[j].delay > timers[i].delay

RemoveAt(seq, i) == SubSeq(seq, 1, i - 1) \o SubSeq(seq, i + 1, Len(seq))

\* applyFilters scheduled only when the address does not show the selection:
\* the variant against which the unconditional scheduling is measured
ScheduleApplyOnMismatch(pending, url) ==
    IF isSearchPage(url) /\ checkCurrentFilters(url, currentFilters, filtersSite) # "true"
    THEN Append(pending, Timer("applyFilters", APPLY_DELAY, NoUrl, FALSE))
    ELSE pending

\* setTimeout(() => applyFilters(), 200) of selectFilter, clearFilter and
\* clearAllFilters, on a results page only
ScheduleApply(pending, url) ==
    IF isSearchPage(url) THEN Append(pending, Timer("applyFilters", APPLY_DELAY, NoUrl, FALSE))
    ELSE pending

\* init() called once more in the loaded document
InitAgain ==
    /\ ~widget
    /\ lastOp.name # "init"
    /\ timers' = init(advancedSearchInitialized, timers)
    /\ advancedSearchInitialized' = TRUE
    /\ lastOp' = Op("init", "", "", IF initSkips(advancedSearchInitialized)
                                    THEN "skipped" ELSE "scheduled")
    /\ UNCHANGED <<localStorage, storedCustomSites, filtersSite, persistenceSettings,
                   currentFilters, location, href, widget, today, loads, acts,
                   initRuns, correctiveNavs>>
    /\ UNCHANGED uiVars

\* the callback of init() with a parse that stores what it adopts, under the
\* category's flag: the variant against which the load-time sequence's
\* leaving the store alone is measured
DelayedInitializationPersisting(i) ==
    /\ timers[i].fn = "delayedInitialization"
    /\ CanFire(i)
    /\ LET cf == IF widget THEN currentFilters
                 ELSE syncFiltersFromURL(currentFilters, filtersSite, location)
           chk == IF isSearchPage(location)
                  THEN checkCurrentFilters(location, cf, filtersSite) ELSE "skip"
           nav == chk = "false" /\ ~applyFiltersThrows(cf, filtersSite)
       IN /\ currentFilters' = cf
          /\ localStorage' =
                [k \in DOMAIN localStorage |->
                    IF \E c \in Cats : k = getStorageKey(c) /\ persistenceSettings[c]
                    THEN cf[CHOOSE c \in Cats : k = getStorageKey(c)]
                    ELSE localStorage[k]]
          /\ href' = IF nav
                     THEN [pending |-> TRUE,
                           url |-> applyFilters(location, cf, filtersSite, today)]
                     ELSE href
          /\ correctiveNavs' = correctiveNavs + (IF nav THEN 1 ELSE 0)
          /\ lastOp' = Op("delayedInitialization", "", "", chk)
    /\ widget' = TRUE
    /\ initRuns' = initRuns + 1
    /\ timers' = RemoveAt(timers, i)
    /\ UNCHANGED <<storedCustomSites, filtersSite, persistenceSettings,
                   location, advancedSearchInitialized, today, loads, acts>>
    /\ UNCHANGED uiVars

\* the callback init() scheduled: createWidget (which runs the inbound parse
\* unless the widget exists), then on a results page the consistency check
\* and, on a mismatch, applyFilters; all inside safeExecute
DelayedInitialization(i) ==
    /\ timers[i].fn = "delayedInitialization"
    /\ CanFire(i)
    /\ LET cf == IF widget THEN currentFilters
                 ELSE syncFiltersFromURL(currentFilters, filtersSite, location)
           chk == IF isSearchPage(location)
                  THEN checkCurrentFilters(location, cf, filtersSite) ELSE "skip"
           nav == chk = "false" /\ ~applyFiltersThrows(cf, filtersSite)
       IN /\ currentFilters' = cf
          /\ href' = IF nav
                     THEN [pending |-> TRUE,
                           url |-> applyFilters(location, cf, filtersSite, today)]
                     ELSE href
          /\ correctiveNavs' = correctiveNavs + (IF nav THEN 1 ELSE 0)
          /\ lastOp' = Op("delayedInitialization", "", "", chk)
    /\ widget' = TRUE
    /\ initRuns' = initRuns + 1
    /\ timers' = RemoveAt(timers, i)
    /\ UNCHANGED <<localStorage, storedCustomSites, filtersSite, persistenceSettings,
                   location, advancedSearchInitialized, today, loads, acts>>
    /\ UNCHANGED uiVars

\* the callback of selectFilter, clearFilter or clearAllFilters: applyFilters
\* reads the state and the address of the moment it runs
ApplyFiltersTimer(i) ==
    /\ timers[i].fn = "applyFilters"
    /\ CanFire(i)
    /\ IF applyFiltersThrows(currentFilters, filtersSite)
       THEN /\ href' = href
            /\ lastOp' = Op("applyFilters", "", "", "threw")
       ELSE /\ href' = [pending |-> TRUE,
                        url |-> applyFilters(location, currentFilters, filtersSite, today)]
            /\ lastOp' = Op("applyFilters", "", "", "navigated")
    /\ timers' = RemoveAt(timers, i)
    /\ UNCHANGED <<localStorage, storedCustomSites, filtersSite, persistenceSettings,
                   currentFilters, location, advancedSearchInitialized, widget, today,
                   loads, acts, initRuns, correctiveNavs>>
    /\ UNCHANGED uiVars

\* the callback of applyInterfaceLanguage or applyRegionChange: it assigns
\* the address that was built when the selection was made
NavigateTimer(i) ==
    /\ timers[i].fn = "navigate"
    /\ CanFire(i)
    /\ href' = [pending |-> TRUE, url |-> timers[i].url]
    /\ lastOp' = Op("navigate", "", "", "navigated")
    /\ timers' = RemoveAt(timers, i)
    /\ UNCHANGED <<localStorage, storedCustomSites, filtersSite, persistenceSettings,
                   currentFilters, location, advancedSearchInitialized, widget, today,
                   loads, acts, initRuns, correctiveNavs>>
    /\ UNCHANGED uiVars

\* the navigation that an assignment to window.location.href started
\* completes: the document is replaced and the script starts in the new one
Navigate ==
    /\ href.pending
    /\ loads < MaxLoads
    /\ ScriptStart(href.url)
    /\ lastOp' = Op("load", "", "", "navigation")

\* --------------------------------------------------------- user operations
\* The panel exists once createWidget has run; an operation is a call of the
\* handler the panel's click listener or the keyboard shortcut dispatches to.
UserGuard == widget /\ ~href.pending /\ acts < MaxActs

setItem(ls, key, value) == [ls EXCEPT ![key] = value]

removeItem(ls, key) == [ls EXCEPT ![key] = NULL]

\* setItem without the test of the flag: the variant against which the test
\* is measured
PersistAlways(ls, ps, filterType, value) == [ls EXCEPT ![getStorageKey(filterType)] = value]

\* if (persistenceSettings[filterType]) localStorage.setItem(key, value)
PersistIfEnabled(ls, ps, filterType, value) ==
    IF ps[filterType] THEN setItem(ls, getStorageKey(filterType), value) ELSE ls

\* filters[filterType][value]: "own", "inherited" or "undefined"
FilterLookup(filterType, value, sites) ==
    IF value \in CatalogKeys(filterType, sites) THEN "own"
    ELSE IF value \in ObjectPrototypeKeys THEN "inherited" ELSE "undefined"

\* applyInterfaceLanguage / applyRegionChange reach their setTimeout: the
\* look-up of the name must not throw and a code other than 'auto' needs an
\* external code
IsolatedNavigates(filterType, value, sites) ==
    /\ value # ""
    /\ FilterLookup(filterType, value, sites) = "own"

\* the selection of an interface language or region routed through
\* applyFilters, which writes every category: the variant against which the
\* isolation of the navigation is measured
IsolatedTargetThroughApply(filterType, value, url) ==
    applyFilters(url, [currentFilters EXCEPT ![filterType] = value], filtersSite, today)

\* the address applyInterfaceLanguage / applyRegionChange builds from the
\* current one: only hl (only gl) is set or deleted
IsolatedTarget(filterType, value, url) ==
    IF filterType = "interfaceLang"
    THEN [url EXCEPT !.hl = IF value = "auto" THEN ""
                            ELSE EntryOf(filtersInterfaceLang, value).googleLang]
    ELSE [url EXCEPT !.gl = IF value = "auto" THEN ""
                            ELSE EntryOf(filtersRegion, value).googleRegion]

\* the timers selectFilter leaves pending after it changed the selection
SelectTimers(filterType, value, sites, url, pending) ==
    IF filterType \in {"interfaceLang", "region"}
    THEN IF IsolatedNavigates(filterType, value, sites)
         THEN Append(pending, Timer("navigate", NAVIGATE_DELAY,
                                    IsolatedTarget(filterType, value, url), FALSE))
         ELSE pending
    ELSE ScheduleApply(pending, url)

\* how selectFilter ends: it returns at once when the value is the current
\* one; filters[filterType][value].name at its end throws for a value
\* without entry; applyInterfaceLanguage catches its own TypeError
SelectOutcome(filterType, value, sites, cf) ==
    IF cf[filterType] = value THEN "noop"
    ELSE IF FilterLookup(filterType, value, sites) = "undefined"
         THEN (IF filterType \in {"interfaceLang", "region"} THEN "caught" ELSE "threw")
    ELSE "selected"

\* selectFilter without its first line (the return when the value is the
\* current one): the variant against which the idempotence is measured
selectFilterNoReturn(filterType, value) ==
    /\ lastOp' = Op("selectFilter", filterType, value,
                    SelectOutcome(filterType, value, filtersSite, currentFilters))
    /\ currentFilters' = [currentFilters EXCEPT ![filterType] = value]
    /\ localStorage' = PersistIfEnabled(localStorage, persistenceSettings, filterType, value)
    /\ timers' = SelectTimers(filterType, value, filtersSite, location, timers)
    /\ UNCHANGED <<storedCustomSites, filtersSite, persistenceSettings>>

selectFilter(filterType, value) ==
    /\ lastOp' = Op("selectFilter", filterType, value,
                    SelectOutcome(filterType, value, filtersSite, currentFilters))
    /\ IF currentFilters[filterType] = value
       THEN UNCHANGED <<currentFilters, localStorage, timers>>
       ELSE /\ currentFilters' = [currentFilters EXCEPT ![filterType] = value]
            /\ localStorage' = PersistIfEnabled(localStorage, persistenceSettings,
                                                filterType, value)
            /\ timers' = SelectTimers(filterType, value, filtersSite, location, timers)
    /\ UNCHANGED <<storedCustomSites, filtersSite, persistenceSettings>>

clearFilter(filterType) ==
    /\ lastOp' = Op("clearFilter", filterType, DefaultValue(filterType), "cleared")
    /\ currentFilters' = [currentFilters EXCEPT ![filterType] = DefaultValue(filterType)]
    /\ localStorage' = PersistIfEnabled(localStorage, persistenceSettings,
                                        filterType, DefaultValue(filterType))
    /\ timers' = ScheduleApply(timers, location)
    /\ UNCHANGED <<storedCustomSites, filtersSite, persistenceSettings>>

hasActiveFilters(cf) == \E c \in Cats : cf[c] # DefaultValue(c)

\* the defaults written for every category, whatever its flag: the variant
\* against which the test of the flag in clearAllFilters is measured
PersistDefaultsAll(ls, ps, i) ==
    [k \in StorageKeys |->
        IF \E c \in Cats : k = getStorageKey(c)
        THEN DefaultValue(CHOOSE c \in Cats : k = getStorageKey(c))
        ELSE ls[k]]

RECURSIVE PersistDefaults(_, _, _)
PersistDefaults(ls, ps, i) ==
    IF i > Len(CatOrder) THEN ls
    ELSE PersistDefaults(PersistIfEnabled(ls, ps, CatOrder[i], DefaultValue(CatOrder[i])),
                         ps, i + 1)

clearAllFilters ==
    /\ lastOp' = Op("clearAllFilters", "", "",
                    IF hasActiveFilters(currentFilters) THEN "cleared" ELSE "noop")
    /\ IF ~hasActiveFilters(currentFilters)
       THEN UNCHANGED <<currentFilters, localStorage, timers>>
       ELSE /\ currentFilters' = [c \in Cats |-> DefaultValue(c)]
            /\ localStorage' = PersistDefaults(localStorage, persistenceSettings, 1)
            /\ timers' = ScheduleApply(timers, location)
    /\ UNCHANGED <<storedCustomSites, filtersSite, persistenceSettings>>

BoolString(b) == IF b THEN "true" ELSE "false"

\* the in-memory selection togglePersistence leaves behind
ToggledFilter(cf, filterType, enabled) ==
    IF enabled THEN cf ELSE [cf EXCEPT ![filterType] = DefaultValue(filterType)]

\* togglePersistence writing the flag alone: the variant against which the
\* write of the selection is measured
ToggledStorageFlagOnly(ls, cf, filterType, enabled) ==
    setItem(ls, getPersistStorageKey(filterType), BoolString(enabled))

\* togglePersistence without its removeItem: the variant against which the
\* removal of the value on disabling is measured
ToggledStorageKeepsValue(ls, cf, filterType, enabled) ==
    LET flagged == setItem(ls, getPersistStorageKey(filterType), BoolString(enabled))
    IN IF enabled THEN setItem(flagged, getStorageKey(filterType), cf[filterType])
       ELSE flagged

\* what togglePersistence leaves in the store
ToggledStorage(ls, cf, filterType, enabled) ==
    LET flagged == setItem(ls, getPersistStorageKey(filterType), BoolString(enabled))
    IN IF enabled THEN setItem(flagged, getStorageKey(filterType), cf[filterType])
       ELSE removeItem(flagged, getStorageKey(filterType))

togglePersistence(filterType) ==
    LET enabled == ~persistenceSettings[filterType]
    IN /\ lastOp' = Op("togglePersistence", filterType, BoolString(enabled), "toggled")
       /\ persistenceSettings' = [persistenceSettings EXCEPT ![filterType] = enabled]
       /\ localStorage' = ToggledStorage(localStorage, currentFilters, filterType, enabled)
       /\ currentFilters' = ToggledFilter(currentFilters, filterType, enabled)
       /\ UNCHANGED <<storedCustomSites, filtersSite, timers>>

\* ------------------------------------------------------------ custom sites
\* The host names a user enters, already through cleanURLDomain (scheme and
\* path stripped, trimmed), as atoms.
HostX == <<"x.com">>
HostRedditTr == <<"reddit.com", ".tr">>
HostBad == <<"not", " ", "a", " ", "domain">>

\* CONFIG.URL_VALIDATION_REGEX.test(cleanUrl) on these hosts
isValidURL(cleanUrl) == cleanUrl \in {HostX, HostRedditTr}

\* cleanUrl.replace(/\./g, '_').replace(/[^a-zA-Z0-9_]/g, '')
SiteKeyOf(cleanUrl) ==
    CASE cleanUrl = HostX -> "x_com"
      [] cleanUrl = HostRedditTr -> "reddit_com_tr"
      [] cleanUrl = HostBad -> "notadomain"

SiteUrlInputs == {HostX, HostRedditTr, HostBad}

CustomKeyUniverse == {SiteKeyOf(h) : h \in {HostX, HostRedditTr}}

\* a site name as entered: its length after trim and whether sanitizeHTML
\* would alter it
NameInputs ==
    { [len |-> 2, markup |-> FALSE], [len |-> 0, markup |-> FALSE],
      [len |-> MAX_SITE_NAME_LENGTH, markup |-> FALSE],
      [len |-> MAX_SITE_NAME_LENGTH + 1, markup |-> FALSE],
      [len |-> MAX_SITE_NAME_LENGTH + 1, markup |-> TRUE],
      [len |-> 8, markup |-> TRUE] }

\* every entry of filters.site serialised, the built-in ones too: the
\* variant against which the filter of saveCustomSites is measured
CustomDeltaAll(sites) == sites

\* the entries saveCustomSites serialises
CustomDelta(sites) == SelectSeq(sites, LAMBDA e : e.key \notin DefaultSiteKeys)

saveCustomSites(sites) == [kind |-> "json", sites |-> CustomDelta(sites)]

\* addCustomSite without its test of filters.site[siteKey]: the variant
\* against which the rejection of a duplicate is measured
AddOutcomeNoDuplicateTest(sites, siteName, cleanUrl) ==
    IF Len(sites) - Len(DEFAULT_SITES) >= MAX_CUSTOM_SITES THEN "capacity"
    ELSE IF siteName.len = 0 THEN "empty"
    ELSE IF siteName.len > MAX_SITE_NAME_LENGTH THEN "too-long"
    ELSE IF siteName.markup THEN "invalid-characters"
    ELSE IF ~isValidURL(cleanUrl) THEN "invalid-url"
    ELSE "added"

\* addCustomSite asking for the address before it tests the name: the
\* variant against which the order of the tests is measured
AddOutcomeUrlFirst(sites, siteName, cleanUrl) ==
    IF Len(sites) - Len(DEFAULT_SITES) >= MAX_CUSTOM_SITES THEN "capacity"
    ELSE IF ~isValidURL(cleanUrl) THEN "invalid-url"
    ELSE IF SiteLookup(sites, SiteKeyOf(cleanUrl)) # "undefined" THEN "duplicate"
    ELSE IF siteName.len = 0 THEN "empty"
    ELSE IF siteName.len > MAX_SITE_NAME_LENGTH THEN "too-long"
    ELSE IF siteName.markup THEN "invalid-characters"
    ELSE "added"

AddOutcome(sites, siteName, cleanUrl) ==
    IF Len(sites) - Len(DEFAULT_SITES) >= MAX_CUSTOM_SITES THEN "capacity"
    ELSE IF siteName.len = 0 THEN "empty"
    ELSE IF siteName.len > MAX_SITE_NAME_LENGTH THEN "too-long"
    ELSE IF siteName.markup THEN "invalid-characters"
    ELSE IF ~isValidURL(cleanUrl) THEN "invalid-url"
    ELSE IF SiteLookup(sites, SiteKeyOf(cleanUrl)) # "undefined" THEN "duplicate"
    ELSE "added"

addCustomSite(siteName, cleanUrl) ==
    LET outcome == AddOutcome(filtersSite, siteName, cleanUrl)
        added == Append(filtersSite,
                        [key |-> SiteKeyOf(cleanUrl), query |-> SiteQuery(cleanUrl)])
    IN /\ lastOp' = Op("addCustomSite", "site", SiteKeyOf(cleanUrl), outcome)
       /\ IF outcome = "added"
          THEN /\ filtersSite' = added
               /\ storedCustomSites' = saveCustomSites(added)
          ELSE UNCHANGED <<filtersSite, storedCustomSites>>
       /\ UNCHANGED <<localStorage, persistenceSettings, currentFilters, timers>>

RemoveOutcome(sites, siteKey) ==
    IF SiteLookup(sites, siteKey) = "undefined" THEN "not-found"
    ELSE IF siteKey \in DefaultSiteKeys THEN "is-builtin"
    ELSE "removed"

\* removeCustomSite without the setItem of lines 1286-1288: the variant
\* against which the write of the reset selection is measured
removeCustomSiteMemoryOnly(siteKey) ==
    LET outcome == RemoveOutcome(filtersSite, siteKey)
        left == SelectSeq(filtersSite, LAMBDA e : e.key # siteKey)
    IN /\ lastOp' = Op("removeCustomSite", "site", siteKey, outcome)
       /\ IF outcome = "removed"
          THEN /\ filtersSite' = left
               /\ currentFilters' = IF currentFilters["site"] = siteKey
                                    THEN [currentFilters EXCEPT !["site"] = "all"]
                                    ELSE currentFilters
               /\ storedCustomSites' = saveCustomSites(left)
          ELSE UNCHANGED <<filtersSite, currentFilters, storedCustomSites>>
       /\ UNCHANGED <<localStorage, persistenceSettings, timers>>

\* removeCustomSite with the confirm dialog accepted
removeCustomSite(siteKey) ==
    LET outcome == RemoveOutcome(filtersSite, siteKey)
        left == SelectSeq(filtersSite, LAMBDA e : e.key # siteKey)
        active == currentFilters["site"] = siteKey
    IN /\ lastOp' = Op("removeCustomSite", "site", siteKey, outcome)
       /\ IF outcome = "removed"
          THEN /\ filtersSite' = left
               /\ currentFilters' = IF active THEN [currentFilters EXCEPT !["site"] = "all"]
                                    ELSE currentFilters
               /\ localStorage' = IF active
                                  THEN PersistIfEnabled(localStorage, persistenceSettings,
                                                        "site", "all")
                                  ELSE localStorage
               /\ storedCustomSites' = saveCustomSites(left)
          ELSE UNCHANGED <<filtersSite, currentFilters, localStorage, storedCustomSites>>
       /\ UNCHANGED <<persistenceSettings, timers>>

\* the values the panel offers for selection: every catalog code except the
\* hidden 'all' of the time section
OfferedValues(filterType, sites) ==
    IF filterType = "time" THEN CatalogKeys("time", sites) \ {"all"}
    ELSE CatalogKeys(filterType, sites)

\* a stale event target: the key of a custom site that is not in the catalog
StaleValues(filterType, sites) ==
    IF filterType = "site" THEN CustomKeyUniverse \ SiteKeys(sites) ELSE {}

UserFrame ==
    /\ UserGuard
    /\ acts' = acts + 1
    /\ UNCHANGED <<location, href, advancedSearchInitialized, widget, today, loads,
                   initRuns, correctiveNavs>>
    /\ UNCHANGED uiVars

UserSelects ==
    /\ UserFrame
    /\ \E c \in Cats :
         \E v \in OfferedValues(c, filtersSite) \cup StaleValues(c, filtersSite) :
            selectFilter(c, v)

UserClears == UserFrame /\ \E c \in {"site", "time"} : clearFilter(c)

UserClearsAll == UserFrame /\ clearAllFilters

UserTogglesPersistence == UserFrame /\ \E c \in Cats : togglePersistence(c)

UserAddsSite == UserFrame /\ \E n \in NameInputs : \E h \in SiteUrlInputs : addCustomSite(n, h)

UserRemovesSite ==
    UserFrame /\ \E k \in SiteKeys(filtersSite) \cup CustomKeyUniverse : removeCustomSite(k)

\* ------------------------------------------------------------- addresses
Foo == <<"foo">>

HomePage == Url("/", FALSE, <<>>, FALSE, <<>>, NoTbs, "", "")

SearchUrl(q, lr, tbs, hl, gl) == Url("/search", TRUE, q, FALSE, lr, tbs, hl, gl)

Qdr(p) == Tbs("qdr", p, NoDate, NoDate)

Cdr(min, max) == Tbs("cdr", "", min, max)

\* the addresses a user opens: the home page, with and without hl, and
\* results pages whose parameters are absent, encode a catalog value or
\* carry a value no catalog entry has
Addresses ==
    { [HomePage EXCEPT !.hl = "tr"],
      SearchUrl(Foo, <<>>, NoTbs, "", ""),
      SearchUrl(Foo, <<>>, NoTbs, "de", "tr"),
      SearchUrl(Join(Foo, SiteQuery(<<"reddit.com">>)), <<"lang_", "en">>, Qdr("d"), "", "US"),
      SearchUrl(Foo, <<"lang_", "constructor">>, Cdr(<<1, 15, 2023>>, <<1, 10, 2025>>), "", ""),
      SearchUrl(Join(Foo, SiteQuery(HostRedditTr)), <<"lang_", "de">>,
                Cdr(<<1, 10, 2024>>, <<1, 10, 2025>>), "", "") }

\* the addresses a user moves on to from a loaded page
NextAddresses ==
    { HomePage,
      SearchUrl(Foo, <<>>, NoTbs, "", ""),
      SearchUrl(Join(Foo, SiteQuery(<<"reddit.com">>)), <<"lang_", "en">>, Qdr("d"), "", "US") }

Todays == { [y |-> 2025, m0 |-> 0, d |-> 10] }

\* ------------------------------------------------------------ initial store
StoreOf(pairs) == [k \in StorageKeys |-> IF k \in DOMAIN pairs THEN pairs[k] ELSE NULL]

XSite == [key |-> "x_com", query |-> SiteQuery(HostX)]

\* stores earlier sessions of the script leave behind: a fresh install; every
\* category remembered with a selection; site and time remembered
InitStores ==
    { [ls |-> EmptyStorage, custom |-> NoCustomSites],
      [ls |-> StoreOf([googleSearchPersistRegion |-> "true",
                       googleSearchPersistSite |-> "true",
                       googleSearchPersistTime |-> "true",
                       googleSearchSearchLang |-> "tr",
                       googleSearchInterfaceLang |-> "tr",
                       googleSearchRegion |-> "us",
                       googleSearchSite |-> "x_com",
                       googleSearchTime |-> "2year"]),
       custom |-> [kind |-> "json", sites |-> <<XSite>>]],
      [ls |-> StoreOf([googleSearchPersistSearchLang |-> "false",
                       googleSearchPersistInterfaceLang |-> "true",
                       googleSearchPersistSite |-> "true",
                       googleSearchInterfaceLang |-> "auto",
                       googleSearchSite |-> "github"]),
       custom |-> NoCustomSites] }

InitWith(stores, addresses) ==
    \E st \in stores : \E url \in addresses : \E now \in Todays :
        /\ localStorage = st.ls
        /\ storedCustomSites = StoreAfterLoad(st.custom)
        /\ filtersSite = loadCustomSites(st.custom)
        /\ persistenceSettings = LoadPersistenceSettings(st.ls)
        /\ currentFilters = LoadCurrentFilters(st.ls)
        /\ location = url
        /\ href = NoHref
        /\ timers = init(FALSE, <<>>)
        /\ advancedSearchInitialized = TRUE
        /\ widget = FALSE
        /\ today = now
        /\ loads = 1
        /\ acts = 0
        /\ initRuns = 0
        /\ correctiveNavs = 0
        /\ lastOp = Op("load", "", "", "opened")
        /\ UiInit

Init == InitWith(InitStores, Addresses)

\* the user opens another address (a new search, a link, a reload)
UserNavigates ==
    /\ widget
    /\ ~href.pending
    /\ loads < MaxLoads
    /\ \E url \in NextAddresses : ScriptStart(url)
    /\ lastOp' = Op("load", "", "", "opened")

InitTimerFires == \E i \in 1..Len(timers) : DelayedInitialization(i)

ApplyTimerFires == \E i \in 1..Len(timers) : ApplyFiltersTimer(i)

NavigateTimerFires == \E i \in 1..Len(timers) : NavigateTimer(i)

Next ==
    \/ InitAgain
    \/ InitTimerFires
    \/ ApplyTimerFires
    \/ NavigateTimerFires
    \/ Navigate
    \/ UserNavigates
    \/ UserSelects
    \/ UserClears
    \/ UserClearsAll
    \/ UserTogglesPersistence
    \/ UserAddsSite
    \/ UserRemovesSite

Spec == Init /\ [][Next]_vars

\* ------------------------------------------------- the chain of page loads
\* Stores as any writer of the origin's localStorage can leave them: those of
\* InitStores, and one whose custom-site entry carries a query with a
\* trailing blank (isValidSiteData accepts every non-empty string).
YSite == [key |-> "y_com", query |-> SiteQuery(<<"y.com">>) \o <<" ">>]

AnyStores ==
    InitStores \cup
    { [ls |-> StoreOf([googleSearchPersistSite |-> "true", googleSearchSite |-> "y_com"]),
       custom |-> [kind |-> "json", sites |-> <<YSite>>]],
      [ls |-> StoreOf([googleSearchSearchLang |-> "xx",
                       googleSearchInterfaceLang |-> "xx",
                       googleSearchPersistSite |-> "true",
                       googleSearchSite |-> "constructor"]),
       custom |-> NoCustomSites] }

ResultsAddresses ==
    {a \in Addresses : isSearchPage(a)} \cup
    { SearchUrl(<<>>, <<>>, NoTbs, "", ""),
      SearchUrl(Foo, <<"tr">>, Qdr(""), "tr", "TR"),
      SearchUrl(Join(SiteQuery(HostX), Foo), <<"lang_", "all">>, Qdr("h"), "en", ""),
      SearchUrl(Foo, <<>>, NoTbs, "tr", ""),
      SearchUrl(Join(Foo, SiteQuery(<<"github.com">>)), <<"lang_", "tr">>,
                Cdr(<<1, 10, 2023>>, <<1, 10, 2025>>), "en", "TR") }

InitChain == InitWith(AnyStores, ResultsAddresses)

\* the load-time steps alone: the delayed initialisation runs and the
\* navigation it started completes; the browser delays neither for ever
NextChain ==
    \/ InitTimerFires
    \/ (href.pending /\ ScriptStart(href.url) /\ lastOp' = Op("load", "", "", "navigation"))

SpecChain == InitChain /\ [][NextChain]_vars /\ WF_vars(NextChain)

\* ------------------------------------------- the transforms on their inputs
\* A state holds, per category, the default or a code of the catalog.
ValidState(cf, sites) ==
    \A c \in Cats : cf[c] = DefaultValue(c) \/ cf[c] \in CatalogKeys(c, sites)

\* the catalog after loadCustomSites read two stored entries: one written by
\* addCustomSite, one whose query carries a trailing blank
FnSites == BuiltinSites \o <<XSite, YSite>>

FnStates ==
    { cf \in [Cats -> {"all", "auto", "tr", "en", "us", "day", "week", "month", "year",
                       "2year"} \cup SiteKeys(FnSites)] : ValidState(cf, FnSites) }

\* free text that carries site tokens of its own: two of them around a word
\* with a doubled blank, and one alone
SiteQueries ==
    { SiteQuery(<<"github.com">>) \o <<" ", " ", "foo", " ">> \o SiteQuery(HostRedditTr),
      SiteQuery(HostX) }

\* the first days of custom date ranges that end on 1/10/2025: 658, 657, 803,
\* 804 and 366 days before it (1.8 years are 657.45 days, 2.2 years 803.55)
RangeStarts ==
    { <<3, 24, 2023>>, <<3, 25, 2023>>, <<10, 30, 2022>>, <<10, 29, 2022>>, <<1, 10, 2024>> }

FnAddresses ==
    { SearchUrl(q, lr, tbs, "", "") :
        q \in { Foo, Join(Foo, SiteQuery(<<"reddit.com">>)), Join(SiteQuery(HostX), Foo) },
        lr \in { <<>>, <<"lang_", "en">>, <<"lang_", "de">> },
        tbs \in { NoTbs, Qdr("h"), Cdr(<<1, 15, 2023>>, <<1, 10, 2025>>) } }
    \cup { SearchUrl(Foo, <<>>, NoTbs, hl, gl) : hl \in { "", "tr", "de" }, gl \in { "", "US", "DE" } }
    \cup { SearchUrl(Foo, <<>>, Cdr(min, <<1, 10, 2025>>), "", "") : min \in RangeStarts }
    \cup { SearchUrl(q, <<>>, NoTbs, "", "") : q \in SiteQueries }

\* the store that remembers every category and holds the selection cf
StoreHolding(cf) ==
    [k \in StorageKeys |->
        IF \E c \in Cats : k = getStorageKey(c)
        THEN cf[CHOOSE c \in Cats : k = getStorageKey(c)]
        ELSE "true"]

\* every valid selection meets every address, either in a freshly loaded
\* document (the delayed initialisation is pending) or after a selection on
\* the page (applyFilters is pending)
InitFn ==
    \E cf \in FnStates : \E url \in FnAddresses : \E now \in Todays :
      \E fn \in {"delayedInitialization", "applyFilters"} :
        /\ localStorage = StoreHolding(cf)
        /\ storedCustomSites = [kind |-> "json", sites |-> <<XSite, YSite>>]
        /\ filtersSite = FnSites
        /\ persistenceSettings = LoadPersistenceSettings(StoreHolding(cf))
        /\ currentFilters = cf
        /\ location = url
        /\ href = NoHref
        /\ timers = <<Timer(fn, IF fn = "applyFilters" THEN APPLY_DELAY
                                 ELSE INITIALIZATION_DELAY, NoUrl,
                          fn = "delayedInitialization")>>
        /\ advancedSearchInitialized = TRUE
        /\ widget = (fn = "applyFilters")
        /\ today = now
        /\ loads = 1
        /\ acts = 0
        /\ initRuns = IF fn = "applyFilters" THEN 1 ELSE 0
        /\ correctiveNavs = 0
        /\ lastOp = Op("load", "", "", "opened")
        /\ UiInit

NextFn == InitTimerFires \/ ApplyTimerFires

SpecFn == InitFn /\ [][NextFn]_vars

\* C1: from any store and any results-page address the chain of loads linked
\* by corrective navigations reaches a load whose consistency check passes
\* and that navigates no further.
C1_ChainSettles ==
    <>(lastOp.name = "delayedInitialization" /\ lastOp.outcome = "true" /\ ~href.pending)

\* C2: round trip. For every state whose categories hold a catalog code or
\* the default, and every results-page address, checkCurrentFilters on the
\* address applyFilters produced for that state returns true.
C2_RoundTrip ==
    (lastOp.name = "applyFilters" /\ lastOp.outcome = "navigated"
        /\ ValidState(currentFilters, filtersSite))
    => checkCurrentFilters(href.url, currentFilters, filtersSite) = "true"

C4_ValuesInCatalog == ValidState(currentFilters, filtersSite)

\* the value the initial load is to give a category: the stored one when the
\* flag is set and the catalog defines it, else the default
ExpectedInitial(ls, ps, sites, filterType) ==
    IF ps[filterType] /\ ls[getStorageKey(filterType)] \in CatalogKeys(filterType, sites)
    THEN ls[getStorageKey(filterType)]
    ELSE DefaultValue(filterType)

\* C5: right after the script loaded, a category whose flag is set holds the
\* stored value if the catalog defines it and the default otherwise; a
\* category whose flag is not set holds the default.
C5_InitialLoad ==
    lastOp.name = "load" =>
        \A c \in Cats :
            currentFilters[c] =
                ExpectedInitial(localStorage, persistenceSettings, filtersSite, c)

\* C6: selectFilter with a code the catalog does not define for the category
\* changes neither the selection, nor the store, nor the pending navigations.
C6_UnknownSelectRejected ==
    [][(lastOp'.name = "selectFilter" /\ acts' = acts + 1
            /\ lastOp'.value \notin CatalogKeys(lastOp'.cat, filtersSite))
        => /\ currentFilters' = currentFilters
           /\ localStorage' = localStorage
           /\ timers' = timers
           /\ href' = href]_vars

\* C7: togglePersistence switching a set flag off removes the stored value of
\* the category and leaves the selection of the category as it was.
C7_DisableKeepsSelection ==
    [][(lastOp'.name = "togglePersistence" /\ acts' = acts + 1
            /\ lastOp'.value = "false")
        => /\ localStorage'[getStorageKey(lastOp'.cat)] = NULL
           /\ currentFilters'[lastOp'.cat] = currentFilters[lastOp'.cat]]_vars

\* C8: togglePersistence switching a flag on writes the current selection of
\* the category to the store: after the call the stored value is the
\* selection, which the call did not change.
C8_EnableWritesSelection ==
    [][(lastOp'.name = "togglePersistence" /\ acts' = acts + 1
            /\ lastOp'.value = "true")
        => /\ localStorage'[getStorageKey(lastOp'.cat)] = currentFilters[lastOp'.cat]
           /\ localStorage'[getStorageKey(lastOp'.cat)] = currentFilters'[lastOp'.cat]
           /\ localStorage'[getPersistStorageKey(lastOp'.cat)] = "true"]_vars

\* a flag was switched on while the category held a selection other than
\* the default, and the store holds that selection
C8_EnabledWithSelection ==
    /\ lastOp.name = "togglePersistence"
    /\ lastOp.value = "true"
    /\ currentFilters[lastOp.cat] # DefaultValue(lastOp.cat)
    /\ localStorage[getStorageKey(lastOp.cat)] = currentFilters[lastOp.cat]
    /\ persistenceSettings[lastOp.cat]

\* a parameter value that matches a definition of the catalog
HlRecognised(hl) ==
    \E i \in 1..Len(filtersInterfaceLang) : filtersInterfaceLang[i].googleLang = hl

GlRecognised(gl) == \E i \in 1..Len(filtersRegion) : filtersRegion[i].googleRegion = gl

LrRecognised(lr) == \E c \in SearchLangKeys : lr = <<"lang_", c>>

TbsRecognised(tbs) ==
    \/ tbs.kind = "qdr" /\ \E i \in 1..Len(filtersTime) : filtersTime[i].param = tbs.p
    \/ /\ tbs.kind = "cdr"
       /\ tbs.min # NoDate
       /\ tbs.max # NoDate
       /\ TwoYearSpan(parseDate(tbs.min), parseDate(tbs.max))

SiteRecognised(q, sites) == \E i \in 1..Len(sites) : Includes(q, sites[i].query)

\* C9: the inbound parse leaves a category at the value it had when the
\* parameter of the category (hl, gl, lr, tbs, the site fragment of q) is
\* absent or matches no definition of the catalog.
C9_ParseKeepsUnrecognised ==
    [][(lastOp'.name = "delayedInitialization" /\ ~widget)
        => /\ ~HlRecognised(location.hl)
                => currentFilters'["interfaceLang"] = currentFilters["interfaceLang"]
           /\ ~GlRecognised(location.gl)
                => currentFilters'["region"] = currentFilters["region"]
           /\ ~LrRecognised(location.lr)
                => currentFilters'["searchLang"] = currentFilters["searchLang"]
           /\ ~TbsRecognised(location.tbs)
                => currentFilters'["time"] = currentFilters["time"]
           /\ ~SiteRecognised(location.q, filtersSite)
                => currentFilters'["site"] = currentFilters["site"]]_vars

\* the parameters a selection is to show in the address
ExpectedLr(cf) == IF cf["searchLang"] = "all" THEN <<>> ELSE <<"lang_", cf["searchLang"]>>

ExpectedTbs(cf, now) ==
    IF cf["time"] = "all" THEN NoTbs
    ELSE createTimeFilterValue(EntryOf(filtersTime, cf["time"]).param, now)

\* C10: on a results page the check returns false whenever lr is not the
\* parameter expected for the language selection or tbs is not the encoding
\* expected for the time selection, the selection 'all' (nothing expected)
\* and '2year' (a two-year range expected) included.
C10_CheckRejectsLrTbs ==
    (isSearchPage(location) /\ ValidState(currentFilters, filtersSite)
        /\ (location.lr # ExpectedLr(currentFilters)
            \/ location.tbs # ExpectedTbs(currentFilters, today)))
    => checkCurrentFilters(location, currentFilters, filtersSite) = "false"

\* hl (gl) is not what the selection asks for: present under 'auto', or
\* other than the external code of a selected catalog entry
HlMismatch(url, cf) ==
    IF cf["interfaceLang"] = "auto" THEN url.hl # ""
    ELSE url.hl # EntryOf(filtersInterfaceLang, cf["interfaceLang"]).googleLang

GlMismatch(url, cf) ==
    IF cf["region"] = "auto" THEN url.gl # ""
    ELSE url.gl # EntryOf(filtersRegion, cf["region"]).googleRegion

\* C11: for a state of catalog values the check returns false when hl or gl
\* is not what interfaceLang or region asks for (present under 'auto', absent
\* or different under a selected value), and true when both are as asked and
\* site, searchLang and time are at their defaults.
C11_CheckHlGl ==
    ValidState(currentFilters, filtersSite) =>
        /\ (HlMismatch(location, currentFilters) \/ GlMismatch(location, currentFilters))
              => checkCurrentFilters(location, currentFilters, filtersSite) = "false"
        /\ (/\ ~HlMismatch(location, currentFilters)
            /\ ~GlMismatch(location, currentFilters)
            /\ currentFilters["site"] = "all"
            /\ currentFilters["searchLang"] = "all"
            /\ currentFilters["time"] = "all")
              => checkCurrentFilters(location, currentFilters, filtersSite) = "true"

\* the load-time check failed on hl alone: hl is present, interfaceLang is
\* 'auto', every other test of the check passes
C11_HlAloneFails ==
    /\ lastOp.name = "delayedInitialization"
    /\ lastOp.outcome = "false"
    /\ currentFilters["interfaceLang"] = "auto"
    /\ location.hl # ""
    /\ SiteMatches(location, currentFilters, filtersSite)
    /\ SearchLangMatches(location, currentFilters)
    /\ TimeMatches(location, currentFilters)
    /\ RegionMatches(location, currentFilters)

\* the address a differs from b in nothing but hl (gl)
OnlyHlDiffers(a, b) == a = [b EXCEPT !.hl = a.hl]

OnlyGlDiffers(a, b) == a = [b EXCEPT !.gl = a.gl]

\* C12: the selection of an interface language (a region) schedules at most
\* one navigation and no applyFilters; the address of that navigation is the
\* address of the moment of selection with hl (gl) alone changed, and that
\* is the address assigned when the timer runs, whatever else is pending.
C12_IsolatedNavigation ==
    [][/\ (lastOp'.name = "selectFilter" /\ acts' = acts + 1
              /\ lastOp'.cat \in {"interfaceLang", "region"})
          => \/ timers' = timers
             \/ /\ Len(timers') = Len(timers) + 1
                /\ SubSeq(timers', 1, Len(timers)) = timers
                /\ timers'[Len(timers')].fn = "navigate"
                /\ IF lastOp'.cat = "interfaceLang"
                   THEN OnlyHlDiffers(timers'[Len(timers')].url, location)
                   ELSE OnlyGlDiffers(timers'[Len(timers')].url, location)
       /\ (lastOp'.name = "navigate" /\ Len(timers') < Len(timers))
          => /\ href'.pending
             /\ \E i \in 1..Len(timers) :
                    timers[i].fn = "navigate" /\ href'.url = timers[i].url
             /\ OnlyHlDiffers(href'.url, location) \/ OnlyGlDiffers(href'.url, location)]_vars

\* an interface language was selected while a time selection was waiting to
\* be applied; the navigation of the language carries the new hl and not
\* the time selection
C12_NavigatedWithoutPendingTime ==
    /\ lastOp.name = "navigate"
    /\ href.pending
    /\ href.url.hl # location.hl
    /\ currentFilters["time"] # "all"
    /\ href.url.tbs = NoTbs
    /\ isSearchPage(location)

\* C13: on a results page a select that changes the value, a clear, and a
\* clearAll that changes something each schedule exactly one outbound
\* navigation, whether or not the address already shows the selection; the
\* navigation runs later, reads the selection the action left and changes
\* neither the selection nor the store.
C13_OneApplyPerAction ==
    [][/\ (/\ acts' = acts + 1
           /\ isSearchPage(location)
           /\ \/ lastOp'.name = "selectFilter" /\ lastOp'.outcome # "noop"
              \/ lastOp'.name = "clearFilter"
              \/ lastOp'.name = "clearAllFilters" /\ lastOp'.outcome = "cleared")
          => /\ Len(timers') = Len(timers) + 1
             /\ SubSeq(timers', 1, Len(timers)) = timers
             /\ timers'[Len(timers')].fn \in {"applyFilters", "navigate"}
             /\ href' = href
       /\ (lastOp'.name = "applyFilters" /\ Len(timers') < Len(timers))
          => /\ currentFilters' = currentFilters
             /\ localStorage' = localStorage
             /\ Len(timers') = Len(timers) - 1
             /\ lastOp'.outcome = "navigated"
                  => href'.url = applyFilters(location, currentFilters, filtersSite, today)]_vars

\* a clear on a results page whose address already shows the selection it
\* leaves: applyFilters is scheduled all the same
C13_ApplyScheduledThoughMatching ==
    /\ lastOp.name = "clearFilter"
    /\ isSearchPage(location)
    /\ checkCurrentFilters(location, currentFilters, filtersSite) = "true"
    /\ Len(timers) > 0
    /\ timers[Len(timers)].fn = "applyFilters"

\* C14: selectFilter with the value the category already holds writes
\* nothing to the store, schedules nothing and changes nothing; so the
\* second of two identical selects in a row adds no store write to the
\* first.
C14_SelectIdempotent ==
    [][(lastOp'.name = "selectFilter" /\ acts' = acts + 1
            /\ currentFilters[lastOp'.cat] = lastOp'.value)
        => /\ lastOp'.outcome = "noop"
           /\ UNCHANGED <<currentFilters, localStorage, storedCustomSites, filtersSite,
                          persistenceSettings, timers, href, location>>]_vars

\* the second selection of a document chose the value its category, which is
\* remembered, already held: nothing was scheduled beside the one timer of
\* the first selection and the store holds the value
C14_SecondSelectDidNothing ==
    /\ lastOp.name = "selectFilter"
    /\ lastOp.outcome = "noop"
    /\ acts = 2
    /\ lastOp.value # DefaultValue(lastOp.cat)
    /\ persistenceSettings[lastOp.cat]
    /\ localStorage[getStorageKey(lastOp.cat)] = lastOp.value
    /\ isSearchPage(location)
    /\ Len(timers) = 1

\* C15: clearAllFilters changes nothing (selection, store, timers) when every
\* category is at its default; otherwise it leaves every category at its
\* default and the store with the default written for exactly the categories
\* whose flag is set; a second call right after finds nothing to do.
C15_ClearAll ==
    [][(lastOp'.name = "clearAllFilters" /\ acts' = acts + 1)
        => /\ UNCHANGED <<persistenceSettings, filtersSite, storedCustomSites, href>>
           /\ IF \A c \in Cats : currentFilters[c] = DefaultValue(c)
              THEN UNCHANGED <<currentFilters, localStorage, timers>>
              ELSE /\ \A c \in Cats :
                        /\ currentFilters'[c] = DefaultValue(c)
                        /\ localStorage'[getStorageKey(c)] =
                              IF persistenceSettings[c] THEN DefaultValue(c)
                              ELSE localStorage[getStorageKey(c)]
                        /\ localStorage'[getPersistStorageKey(c)] =
                              localStorage[getPersistStorageKey(c)]
           /\ ~hasActiveFilters(currentFilters')]_vars

\* clearAllFilters cleared a selection: a remembered category that held a
\* value has the default in the store, a category that is not remembered has
\* no stored value
C15_ClearedWithMixedFlags ==
    /\ lastOp.name = "clearAllFilters"
    /\ lastOp.outcome = "cleared"
    /\ \E c \in Cats : persistenceSettings[c]
                       /\ localStorage[getStorageKey(c)] = DefaultValue(c)
    /\ \E c \in Cats : ~persistenceSettings[c] /\ localStorage[getStorageKey(c)] = NULL
    /\ \A c \in Cats : currentFilters[c] = DefaultValue(c)

\* C16: a selectFilter that changes the selection writes the new value under
\* the category's key when the category's flag is set, and nothing else;
\* when the flag is not set it leaves the whole store as it was.
C16_SelectWritesIffFlag ==
    [][(lastOp'.name = "selectFilter" /\ acts' = acts + 1
            /\ currentFilters[lastOp'.cat] # lastOp'.value)
        => /\ currentFilters'[lastOp'.cat] = lastOp'.value
           /\ storedCustomSites' = storedCustomSites
           /\ IF persistenceSettings[lastOp'.cat]
              THEN localStorage' =
                      [localStorage EXCEPT ![getStorageKey(lastOp'.cat)] = lastOp'.value]
              ELSE localStorage' = localStorage]_vars

\* a value was selected in a category that is not remembered: the selection
\* changed and the category has no stored value
C16_SelectedUnremembered ==
    /\ lastOp.name = "selectFilter"
    /\ lastOp.outcome = "selected"
    /\ ~persistenceSettings[lastOp.cat]
    /\ currentFilters[lastOp.cat] = lastOp.value
    /\ lastOp.value # DefaultValue(lastOp.cat)
    /\ localStorage[getStorageKey(lastOp.cat)] = NULL

\* C17: clearFilter(category) leaves the selection, the store and the
\* pending timers exactly as selectFilter(category, default) would leave
\* them, and so changes nothing when the category is at its default.
C17_ClearIsSelectDefault ==
    [][(lastOp'.name = "clearFilter" /\ acts' = acts + 1)
        => LET c == lastOp'.cat
               d == DefaultValue(lastOp'.cat)
           IN IF currentFilters[c] = d
              THEN UNCHANGED <<currentFilters, localStorage, timers>>
              ELSE /\ currentFilters' = [currentFilters EXCEPT ![c] = d]
                   /\ localStorage' = PersistIfEnabled(localStorage, persistenceSettings, c, d)
                   /\ timers' = SelectTimers(c, d, filtersSite, location, timers)]_vars

\* the address carries no parameter for the category
NoParameterFor(filterType, url) ==
    IF filterType = "searchLang" THEN url.lr = <<>>
    ELSE IF filterType = "interfaceLang" THEN url.hl = ""
    ELSE IF filterType = "region" THEN url.gl = ""
    ELSE IF filterType = "time" THEN url.tbs = NoTbs
    ELSE \A i \in 1..Len(url.q) : url.q[i] # "site:"

\* the address encodes the catalog code v of the category
Encodes(filterType, v, url, sites, now) ==
    IF filterType = "searchLang" THEN url.lr = <<"lang_", v>>
    ELSE IF filterType = "interfaceLang"
         THEN url.hl = EntryOf(filtersInterfaceLang, v).googleLang
    ELSE IF filterType = "region" THEN url.gl = EntryOf(filtersRegion, v).googleRegion
    ELSE IF filterType = "time"
         THEN url.tbs = createTimeFilterValue(EntryOf(filtersTime, v).param, now)
    ELSE Includes(url.q, SiteQueryOf(sites, v))

\* C18: when a category is remembered and its stored value is a catalog code
\* other than the default, the load of a results page whose address has no
\* parameter for the category ends in a corrective navigation to an address
\* that encodes the stored value.
C18_RememberedFilterApplied ==
    [][(lastOp'.name = "delayedInitialization" /\ ~widget /\ widget'
            /\ isSearchPage(location))
        => \A c \in Cats :
              (/\ persistenceSettings[c]
               /\ localStorage[getStorageKey(c)] # DefaultValue(c)
               /\ localStorage[getStorageKey(c)] \in CatalogKeys(c, filtersSite)
               /\ NoParameterFor(c, location))
              => /\ href'.pending
                 /\ correctiveNavs' = 1
                 /\ Encodes(c, localStorage[getStorageKey(c)], href'.url,
                            filtersSite, today)]_vars

\* a results page as the claim describes it: the search path and a parameter
\* q that is present with a value
QueryWithValue(url) == url.path = "/search" /\ url.qPresent /\ url.q # <<>>

\* C19: on an address that is not the search path with a non-empty q, the
\* load-time sequence parses neither site, nor language, nor time from the
\* address and starts no corrective navigation.
C19_EmptyQueryIsNoResultsPage ==
    [][(lastOp'.name = "delayedInitialization" /\ ~widget /\ widget'
            /\ ~QueryWithValue(location))
        => /\ href' = href
           /\ correctiveNavs' = correctiveNavs
           /\ currentFilters'["site"] = currentFilters["site"]
           /\ currentFilters'["searchLang"] = currentFilters["searchLang"]
           /\ currentFilters'["time"] = currentFilters["time"]]_vars

\* ------------------------------------------------- store writes that throw
\* localStorage.setItem throws (QuotaExceededError, storage disabled). The
\* handlers below are the handlers above cut at the setItem that throws:
\* none of them wraps the call, and the click listener of setupPanelEvents
\* that calls them has no try either.

\* selectFilter: the assignment is done, setItem throws, the rest of the
\* function (applyInterfaceLanguage, the setTimeout of applyFilters) is not
\* reached
selectFilterWriteThrows(filterType, value) ==
    /\ currentFilters[filterType] # value
    /\ persistenceSettings[filterType]
    /\ lastOp' = Op("selectFilter", filterType, value, "write-threw")
    /\ currentFilters' = [currentFilters EXCEPT ![filterType] = value]
    /\ UNCHANGED <<localStorage, timers, storedCustomSites, filtersSite, persistenceSettings>>

clearFilterWriteThrows(filterType) ==
    /\ persistenceSettings[filterType]
    /\ lastOp' = Op("clearFilter", filterType, DefaultValue(filterType), "write-threw")
    /\ currentFilters' = [currentFilters EXCEPT ![filterType] = DefaultValue(filterType)]
    /\ UNCHANGED <<localStorage, timers, storedCustomSites, filtersSite, persistenceSettings>>

\* the defaults clearAllFilters wrote for the first n categories
RECURSIVE PersistDefaultsBefore(_, _, _)
PersistDefaultsBefore(ls, ps, n) ==
    IF n = 0 THEN ls
    ELSE PersistIfEnabled(PersistDefaultsBefore(ls, ps, n - 1), ps,
                          CatOrder[n], DefaultValue(CatOrder[n]))

\* clearAllFilters: the forEach stops at the category i whose setItem throws;
\* the categories up to i are reset, the later ones are not
clearAllFiltersWriteThrows ==
    /\ hasActiveFilters(currentFilters)
    /\ \E i \in 1..Len(CatOrder) :
         /\ persistenceSettings[CatOrder[i]]
         /\ currentFilters' =
              [c \in Cats |-> IF \E j \in 1..i : CatOrder[j] = c
                              THEN DefaultValue(c) ELSE currentFilters[c]]
         /\ localStorage' = PersistDefaultsBefore(localStorage, persistenceSettings, i - 1)
    /\ lastOp' = Op("clearAllFilters", "", "", "write-threw")
    /\ UNCHANGED <<timers, storedCustomSites, filtersSite, persistenceSettings>>

\* togglePersistence: the flag in memory is flipped, then the setItem of the
\* flag throws; or, when the flag was switched on, the setItem of the flag
\* succeeds and the setItem of the value throws
togglePersistenceWriteThrows(filterType) ==
    LET enabled == ~persistenceSettings[filterType]
    IN /\ lastOp' = Op("togglePersistence", filterType, BoolString(enabled), "write-threw")
       /\ persistenceSettings' = [persistenceSettings EXCEPT ![filterType] = enabled]
       /\ \/ localStorage' = localStorage
          \/ /\ enabled
             /\ localStorage' = setItem(localStorage, getPersistStorageKey(filterType),
                                        BoolString(enabled))
       /\ UNCHANGED <<currentFilters, storedCustomSites, filtersSite, timers>>

UserSelectsWriteThrows ==
    /\ UserFrame
    /\ \E c \in Cats : \E v \in OfferedValues(c, filtersSite) : selectFilterWriteThrows(c, v)

UserClearsWriteThrows == UserFrame /\ \E c \in {"site", "time"} : clearFilterWriteThrows(c)

UserClearsAllWriteThrows == UserFrame /\ clearAllFiltersWriteThrows

UserTogglesWriteThrows == UserFrame /\ \E c \in Cats : togglePersistenceWriteThrows(c)

InitStorageFull == InitWith(InitStores, NextAddresses)

NextStorageFull ==
    \/ InitAgain
    \/ InitTimerFires
    \/ ApplyTimerFires
    \/ NavigateTimerFires
    \/ Navigate
    \/ UserNavigates
    \/ UserSelects
    \/ UserClears
    \/ UserClearsAll
    \/ UserTogglesPersistence
    \/ UserSelectsWriteThrows
    \/ UserClearsWriteThrows
    \/ UserClearsAllWriteThrows
    \/ UserTogglesWriteThrows

SpecStorageFull == InitStorageFull /\ [][NextStorageFull]_vars

\* C20: when a store write fails during selectFilter, clearFilter,
\* clearAllFilters or togglePersistence the operation still completes: the
\* selection (the flag) in memory is the one asked for, applyFilters is
\* scheduled on a results page, and no exception leaves the operation.
C20_WriteFailureTolerated ==
    [][(acts' = acts + 1)
        => /\ lastOp'.outcome # "write-threw"
           /\ (lastOp'.name = "selectFilter" /\ currentFilters[lastOp'.cat] # lastOp'.value)
                => /\ currentFilters'[lastOp'.cat] = lastOp'.value
                   /\ (isSearchPage(location) => Len(timers') = Len(timers) + 1)
           /\ lastOp'.name = "clearFilter"
                => /\ currentFilters'[lastOp'.cat] = DefaultValue(lastOp'.cat)
                   /\ (isSearchPage(location) => Len(timers') = Len(timers) + 1)
           /\ (lastOp'.name = "clearAllFilters" /\ hasActiveFilters(currentFilters))
                => /\ ~hasActiveFilters(currentFilters')
                   /\ (isSearchPage(location) => Len(timers') = Len(timers) + 1)
           /\ lastOp'.name = "togglePersistence"
                => persistenceSettings'[lastOp'.cat] = ~persistenceSettings[lastOp'.cat]]_vars

\* the day count of the calendar date <<month, day, year>> (the Julian day
\* number of the civil calendar)
JulianDay(dateStr) ==
    LET a == (14 - dateStr[1]) \div 12
        y == dateStr[3] + 4800 - a
        m == dateStr[1] + 12 * a - 3
    IN dateStr[2] + ((153 * m + 2) \div 5) + 365 * y + (y \div 4) - (y \div 100)
       + (y \div 400) - 32045

\* the span from min to max lies between 1.8 and 2.2 years of 365.25 days
SpanIsTwoYears(min, max) ==
    LET days == JulianDay(max) - JulianDay(min)
    IN 10000 * days >= 18 * 365250 /\ 10000 * days <= 22 * 365250

\* C21: the inbound parse of a results page whose tbs is a custom date range
\* leaves the time selection at '2year' when the span of the range lies
\* between 1.8 and 2.2 years (of 365.25 days), and leaves the time selection
\* as it was otherwise.
C21_TwoYearDetection ==
    [][(lastOp'.name = "delayedInitialization" /\ ~widget /\ isSearchPage(location)
            /\ location.tbs.kind = "cdr"
            /\ location.tbs.min # NoDate /\ location.tbs.max # NoDate)
        => currentFilters'["time"] =
              IF SpanIsTwoYears(location.tbs.min, location.tbs.max) THEN "2year"
              ELSE currentFilters["time"]]_vars

\* the parse read a range of 658 days, the shortest above 1.8 years, and
\* set the time selection, which the store held at another value, to '2year'
C21_ShortestRangeAccepted ==
    /\ lastOp.name = "delayedInitialization"
    /\ location.tbs = Cdr(<<3, 24, 2023>>, <<1, 10, 2025>>)
    /\ currentFilters["time"] = "2year"
    /\ localStorage[getStorageKey("time")] = "week"

\* every filter parameter of the address is absent or encodes a code, other
\* than the default, of the built-in catalog
AllEncoded(url, now) ==
    \A c \in Cats :
        \/ NoParameterFor(c, url)
        \/ \E v \in CatalogKeys(c, BuiltinSites) \ {DefaultValue(c)} :
              Encodes(c, v, url, BuiltinSites, now)

\* C22: with an empty store, the load of a results page whose filter
\* parameters are each absent or the encoding of a catalog value leaves every
\* category at the default (parameter absent) or at a code the address
\* encodes; the consistency check on that address returns true and no
\* corrective navigation is started.
C22_ParseThenCheckPasses ==
    [][(lastOp'.name = "delayedInitialization" /\ ~widget /\ widget'
            /\ localStorage = EmptyStorage /\ storedCustomSites = NoCustomSites
            /\ isSearchPage(location) /\ AllEncoded(location, today))
        => /\ \A c \in Cats :
                IF NoParameterFor(c, location)
                THEN currentFilters'[c] = DefaultValue(c)
                ELSE Encodes(c, currentFilters'[c], location, BuiltinSites, today)
           /\ checkCurrentFilters(location, currentFilters', filtersSite) = "true"
           /\ lastOp'.outcome = "true"
           /\ href' = href
           /\ correctiveNavs' = correctiveNavs]_vars

\* the load of an address that encodes a value in every category, with an
\* empty store: all five were read, the check passed, nothing was assigned
C22_AllFiveReadAndMatching ==
    /\ lastOp.name = "delayedInitialization"
    /\ lastOp.outcome = "true"
    /\ localStorage = EmptyStorage
    /\ \A c \in Cats : currentFilters[c] # DefaultValue(c)
    /\ currentFilters["time"] = "2year"
    /\ currentFilters["region"] = "tr"
    /\ ~href.pending
    /\ correctiveNavs = 0

\* ------------------------------------------------- the custom-site catalog
\* What the key googleSearchCustomSites can hold when a page loads: nothing;
\* the entry addCustomSite wrote for x.com; text that is no JSON; JSON that
\* is no object; an entry under the key of a built-in site; and 49, 50 and
\* 51 entries.
ManySites(n) ==
    [i \in 1..n |-> [key |-> "c" \o ToString(i) \o "_com",
                     query |-> SiteQuery(<<"c" \o ToString(i) \o ".com">>)]]

RedditOverride == [key |-> "reddit", query |-> SiteQuery(<<"example.com">>)]

SiteStores ==
    { NoCustomSites,
      [kind |-> "json", sites |-> <<XSite>>],
      [kind |-> "corrupt", sites |-> <<>>],
      [kind |-> "scalar", sites |-> <<>>],
      [kind |-> "json", sites |-> <<RedditOverride>>],
      [kind |-> "json", sites |-> ManySites(MAX_CUSTOM_SITES - 1)],
      [kind |-> "json", sites |-> ManySites(MAX_CUSTOM_SITES)],
      [kind |-> "json", sites |-> ManySites(MAX_CUSTOM_SITES + 1)] }

SiteSelections ==
    { EmptyStorage,
      StoreOf([googleSearchPersistSite |-> "true", googleSearchSite |-> "x_com"]) }

\* the page is about to load: the script has not run, filters.site is the
\* literal of the four built-in sites and no timer is pending
InitSites ==
    \E custom \in SiteStores : \E ls \in SiteSelections : \E now \in Todays :
        /\ localStorage = ls
        /\ storedCustomSites = custom
        /\ filtersSite = BuiltinSites
        /\ persistenceSettings = LoadPersistenceSettings(ls)
        /\ currentFilters = LoadCurrentFilters(ls)
        /\ location = NoUrl
        /\ href = NoHref
        /\ timers = <<>>
        /\ advancedSearchInitialized = FALSE
        /\ widget = FALSE
        /\ today = now
        /\ loads = 0
        /\ acts = 0
        /\ initRuns = 0
        /\ correctiveNavs = 0
        /\ lastOp = Op("", "", "", "")
        /\ UiInit

\* the script runs in the first document; the ghost records what kind of
\* content loadCustomSites found under the key
ScriptLoads ==
    /\ loads = 0
    /\ \E url \in {HomePage, SearchUrl(Foo, <<>>, NoTbs, "", "")} : ScriptStart(url)
    /\ lastOp' = Op("load", "", storedCustomSites.kind, "opened")

\* the remove buttons a user reaches: those of the sites entered in this
\* model, of the site listed last, and calls with the key of a built-in site
RemoveTargets(sites) ==
    DefaultSiteKeys \cup CustomKeyUniverse \cup {sites[Len(sites)].key}

UserRemovesListedSite ==
    UserFrame /\ \E k \in RemoveTargets(filtersSite) : removeCustomSite(k)

NextSites ==
    \/ ScriptLoads
    \/ InitTimerFires
    \/ Navigate
    \/ UserNavigates
    \/ UserAddsSite
    \/ UserRemovesListedSite

SpecSites == InitSites /\ [][NextSites]_vars

\* the input is one the claim lists as rejected: the name is empty, longer
\* than the maximum or altered by escaping, the host is no domain, or the
\* key derived from the host is in the catalog
RejectedInput(sites, siteName, cleanUrl) ==
    \/ siteName.len = 0
    \/ siteName.len > 20
    \/ siteName.markup
    \/ cleanUrl \notin {HostX, HostRedditTr}
    \/ SiteKeyOf(cleanUrl) \in SiteKeys(sites)

\* C23: an addCustomSite whose input is rejected (empty name, name too long,
\* invalid characters, invalid domain, duplicate key) changes neither the
\* catalog, nor the stored custom sites, nor the selection, nor the store of
\* the selection.
C23_RejectedAddChangesNothing ==
    [][\A n \in NameInputs : \A h \in SiteUrlInputs :
          (UserFrame /\ addCustomSite(n, h) /\ RejectedInput(filtersSite, n, h))
          => UNCHANGED <<filtersSite, storedCustomSites, currentFilters, localStorage,
                         persistenceSettings>>]_vars

\* x.com was entered while the catalog held it and the site was selected:
\* the call was refused as a duplicate and the catalog, the stored entry and
\* the selection are what they were
C23_DuplicateRefused ==
    /\ lastOp.name = "addCustomSite"
    /\ lastOp.outcome = "duplicate"
    /\ lastOp.value = "x_com"
    /\ filtersSite = BuiltinSites \o <<XSite>>
    /\ storedCustomSites = [kind |-> "json", sites |-> <<XSite>>]
    /\ currentFilters["site"] = "x_com"

\* the rules of the validation in the order of the claim, under the names
\* of the outcomes (invalid-url: the domain does not match the host pattern)
ValidationOrder == <<"empty", "too-long", "invalid-characters", "invalid-url", "duplicate">>

RuleFails(rule, sites, siteName, cleanUrl) ==
    CASE rule = "empty" -> siteName.len = 0
      [] rule = "too-long" -> siteName.len > 20
      [] rule = "invalid-characters" -> siteName.markup
      [] rule = "invalid-url" -> cleanUrl \notin {HostX, HostRedditTr}
      [] rule = "duplicate" -> cleanUrl \in {HostX, HostRedditTr}
                               /\ SiteKeyOf(cleanUrl) \in SiteKeys(sites)

FirstFailingRule(sites, siteName, cleanUrl) ==
    LET failing == {i \in 1..Len(ValidationOrder) :
                       RuleFails(ValidationOrder[i], sites, siteName, cleanUrl)}
    IN IF failing = {} THEN "added"
       ELSE ValidationOrder[CHOOSE i \in failing : \A j \in failing : i <= j]

\* C24: below the maximum number of custom sites, addCustomSite ends with
\* the first rule that fails in the order empty name, name longer than 20
\* characters, name altered by escaping, domain not matching the host
\* pattern, key already present; it adds the site when no rule fails.
C24_FirstFailingRuleReported ==
    [][\A n \in NameInputs : \A h \in SiteUrlInputs :
          (UserFrame /\ addCustomSite(n, h)
              /\ Len(filtersSite) - 4 < 50)
          => lastOp'.outcome = FirstFailingRule(filtersSite, n, h)]_vars

\* a name of 21 characters was entered with a host that is no domain: the
\* call ended with too-long, the rule that comes first
C24_TooLongBeforeDomain ==
    /\ lastOp.name = "addCustomSite"
    /\ lastOp.outcome = "too-long"
    /\ lastOp.value = "notadomain"

\* the custom sites of a catalog: its entries under keys that are not built in
CustomSitesOf(sites) == SelectSeq(sites, LAMBDA e : e.key \notin DefaultSiteKeys)

\* C25: the catalog never holds more than 50 custom sites; with 50 or more
\* of them addCustomSite is refused and changes neither the catalog nor the
\* stored custom sites.
C25_CustomSitesBounded ==
    [][/\ Len(CustomSitesOf(filtersSite')) <= 50
       /\ (lastOp'.name = "addCustomSite" /\ acts' = acts + 1
              /\ Len(CustomSitesOf(filtersSite)) >= 50)
          => /\ lastOp'.outcome = "capacity"
             /\ UNCHANGED <<filtersSite, storedCustomSites>>]_vars

\* C26: the four built-in sites are in the catalog, in their places and with
\* their original fragments, after every step (a load from the store and
\* addCustomSite included); removeCustomSite with the key of a built-in site
\* or with a key the catalog does not hold is refused and leaves the catalog
\* as it was.
C26_BuiltinsIntact ==
    [][/\ Len(filtersSite') >= 4
       /\ SubSeq(filtersSite', 1, 4) = BuiltinSites
       /\ (lastOp'.name = "removeCustomSite" /\ acts' = acts + 1
              /\ (lastOp'.value \in DefaultSiteKeys
                  \/ lastOp'.value \notin SiteKeys(filtersSite)))
          => /\ lastOp'.outcome \in {"is-builtin", "not-found"}
             /\ filtersSite' = filtersSite]_vars

\* C27: after an addCustomSite or removeCustomSite that went through, the
\* stored custom sites are the entries of the catalog that are not built in,
\* in the order of the catalog, and no stored entry has the key of a
\* built-in site.
C27_StoredIsCatalogMinusBuiltins ==
    [][(acts' = acts + 1
            /\ \/ lastOp'.name = "addCustomSite" /\ lastOp'.outcome = "added"
               \/ lastOp'.name = "removeCustomSite" /\ lastOp'.outcome = "removed")
        => /\ storedCustomSites'.kind = "json"
           /\ storedCustomSites'.sites = CustomSitesOf(filtersSite')
           /\ \A i \in 1..Len(storedCustomSites'.sites) :
                 storedCustomSites'.sites[i].key \notin DefaultSiteKeys
           /\ filtersSite' # filtersSite]_vars

\* reddit.com.tr was added to a catalog that holds x.com: the stored custom
\* sites are the two custom entries and none of the four built-in ones
C27_TwoCustomSitesStored ==
    /\ lastOp.name = "addCustomSite"
    /\ lastOp.outcome = "added"
    /\ Len(filtersSite) = 6
    /\ Len(storedCustomSites.sites) = 2
    /\ storedCustomSites.sites[1] = XSite
    /\ storedCustomSites.sites[2].key = "reddit_com_tr"

\* C28: when the text stored under the custom-site key is no JSON, the load
\* leaves the catalog at the four built-in sites, removes the key from the
\* store, and the script goes on (its initialisation is scheduled).
C28_CorruptStoreDropped ==
    [][(lastOp'.name = "load" /\ storedCustomSites.kind = "corrupt")
        => /\ filtersSite' = BuiltinSites
           /\ storedCustomSites' = NoCustomSites
           /\ advancedSearchInitialized'
           /\ Len(timers') = 1
           /\ timers'[1].fn = "delayedInitialization"]_vars

\* a page was loaded over a store whose custom-site key held no JSON: the
\* key is gone, the catalog is the built-in one, the initialisation is pending
C28_LoadedOverCorruptStore ==
    /\ lastOp.name = "load"
    /\ lastOp.value = "corrupt"
    /\ storedCustomSites = NoCustomSites
    /\ filtersSite = BuiltinSites
    /\ Len(timers) = 1

\* ------------------------------------------------------------ the teardown
\* cleanup(): clearTimeout for every id in globalState.timeouts; what stays
\* pending are the timers whose id was never added to the set
cleanup(pending) == SelectSeq(pending, LAMBDA t : ~t.tracked)

\* beforeunload fires in the loaded document (the user follows a link, a
\* navigation starts) and handleUnload runs cleanup; the document is still
\* there until the navigation commits, and stays when it is cancelled
HandleUnload ==
    /\ advancedSearchInitialized
    /\ lastOp.name # "cleanup"
    /\ timers' = cleanup(timers)
    /\ lastOp' = Op("cleanup", "", "", "")
    /\ UNCHANGED <<localStorage, storedCustomSites, filtersSite, persistenceSettings,
                   currentFilters, location, href, advancedSearchInitialized, widget,
                   today, loads, acts, initRuns, correctiveNavs>>
    /\ UNCHANGED uiVars

InitTeardown == InitWith(InitStores, NextAddresses)

NextTeardown ==
    \/ InitTimerFires
    \/ ApplyTimerFires
    \/ NavigateTimerFires
    \/ Navigate
    \/ UserNavigates
    \/ UserSelects
    \/ UserClears
    \/ UserClearsAll
    \/ HandleUnload

SpecTeardown == InitTeardown /\ [][NextTeardown]_vars

\* C29: every pending timer of the script is in the tracked set, and right
\* after the teardown (cleanup) has run no timer of the script is pending.
C29_TimersTracked ==
    /\ \A i \in 1..Len(timers) : timers[i].tracked
    /\ lastOp.name = "cleanup" => timers = <<>>

\* C30: for a state of catalog values, in a catalog that addCustomSite built,
\* the inbound parse of the address applyFilters produced for that state,
\* started from that state, leaves the state as it is.
C30_ParseOfAppliedIsIdentity ==
    (lastOp.name = "applyFilters" /\ lastOp.outcome = "navigated"
        /\ ValidState(currentFilters, filtersSite))
    => syncFiltersFromURL(currentFilters, filtersSite, href.url) = currentFilters

\* the number of site tokens in a free text
SiteTokens(q) == Cardinality({i \in 1..Len(q) : q[i] = "site:"})

EndsWith(q, t) == Len(q) >= Len(t) /\ SubSeq(q, Len(q) - Len(t) + 1, Len(q)) = t

\* C31: the free text applyFilters writes holds no site token when the site
\* selection is 'all'; otherwise it holds exactly one, that of the selected
\* site's fragment, which stands at its end; every site token the free text
\* held before is gone.
C31_OneSiteTokenAfterApply ==
    (lastOp.name = "applyFilters" /\ lastOp.outcome = "navigated"
        /\ ValidState(currentFilters, filtersSite))
    => IF currentFilters["site"] = "all" THEN SiteTokens(href.url.q) = 0
       ELSE /\ SiteTokens(href.url.q) = 1
            /\ EndsWith(href.url.q, Trim(SiteQueryOf(filtersSite, currentFilters["site"])))

\* applyFilters ran on a free text with two site tokens of its own while
\* x.com was selected: the text assigned is the word and the one fragment
C31_TwoTokensReplacedByOne ==
    /\ lastOp.name = "applyFilters"
    /\ SiteTokens(location.q) = 2
    /\ currentFilters["site"] = "x_com"
    /\ href.pending
    /\ href.url.q = <<"foo", " ", "site:", "x.com">>

\* ------------------------------------------------- the parse on every page
\* Addresses of every kind: pages that are no results pages and carry hl, gl
\* or left-over q, lr and tbs; the search path without q, with an empty q and
\* with q= inside another parameter's name; results pages.
ParseAddresses ==
    { [HomePage EXCEPT !.hl = "tr", !.gl = "US"],
      Url("/", TRUE, Join(Foo, SiteQuery(<<"reddit.com">>)), FALSE, <<"lang_", "en">>,
          Qdr("d"), "en", ""),
      Url("/search", FALSE, <<>>, FALSE, <<"lang_", "tr">>, Qdr("w"), "", "TR"),
      Url("/search", TRUE, <<>>, FALSE, <<"lang_", "en">>, Qdr("w"), "", ""),
      Url("/search", FALSE, <<>>, TRUE, <<"lang_", "tr">>,
          Cdr(<<1, 15, 2023>>, <<1, 10, 2025>>), "tr", ""),
      SearchUrl(Foo, <<>>, NoTbs, "", ""),
      SearchUrl(Join(Foo, SiteQuery(<<"reddit.com">>)), <<"lang_", "en">>, Qdr("d"), "en", "US") }

InitParse == InitWith(AnyStores, ParseAddresses)

NextParse ==
    \/ InitTimerFires
    \/ Navigate
    \/ UserNavigates

SpecParse == InitParse /\ [][NextParse]_vars

\* C32: on every page the inbound parse sets interfaceLang and region to the
\* catalog codes that hl and gl encode; on a page that is not a results page
\* (the search path with a non-empty q) it leaves site, searchLang and time
\* as they were, whatever q, lr and tbs hold.
C32_ParseFrame ==
    [][(lastOp'.name = "delayedInitialization" /\ ~widget /\ widget')
        => /\ HlRecognised(location.hl)
                => currentFilters'["interfaceLang"] = InterfaceLangOfHl(location.hl)
           /\ GlRecognised(location.gl)
                => currentFilters'["region"] = RegionOfGl(location.gl)
           /\ ~QueryWithValue(location)
                => /\ currentFilters'["site"] = currentFilters["site"]
                   /\ currentFilters'["searchLang"] = currentFilters["searchLang"]
                   /\ currentFilters'["time"] = currentFilters["time"]]_vars

\* ------------------------------------ two isolated navigations in one page
\* the callbacks of applyInterfaceLanguage and applyRegionChange that are
\* still pending: each holds the address its navigation will assign
PendingNavigations == {i \in 1..Len(timers) : timers[i].fn = "navigate"}

\* an interface language and then a region, both other than 'auto', were
\* selected and neither callback has run
LanguageThenRegionPending ==
    /\ lastOp.name = "selectFilter" /\ lastOp.cat = "region"
    /\ lastOp.outcome = "selected" /\ lastOp.value # "auto"
    /\ currentFilters["interfaceLang"] # "auto"
    /\ Cardinality(PendingNavigations) = 2
    /\ \E i \in PendingNavigations :
          /\ i < Len(timers)
          /\ timers[i].url = IsolatedTarget("interfaceLang", currentFilters["interfaceLang"],
                                            location)

\* C33: after an interface language and then a region were selected before
\* the first delayed navigation ran, the address that the navigations leave
\* behind, whichever of the pending callbacks assigns last, carries the hl
\* of the selected language and the gl of the selected region.
C33_BothSelectionsCarried ==
    LanguageThenRegionPending
    => \A i \in PendingNavigations :
          /\ timers[i].url.hl = EntryOf(filtersInterfaceLang,
                                        currentFilters["interfaceLang"]).googleLang
          /\ timers[i].url.gl = EntryOf(filtersRegion, currentFilters["region"]).googleRegion

\* C34: once removeCustomSite has removed the site k, nothing stored names
\* k: the stored site selection is not k and the stored custom sites hold
\* no entry with the key k, whatever the selection in memory was.
C34_RemovedSiteNotStored ==
    [][(lastOp'.name = "removeCustomSite" /\ lastOp'.outcome = "removed")
        => /\ localStorage'[getStorageKey("site")] # lastOp'.value
           /\ \A i \in 1..Len(storedCustomSites'.sites) :
                 storedCustomSites'.sites[i].key # lastOp'.value]_vars

\* ------------------------------------------- the store after an operation
\* One address opened with its remembered settings, every operation of the
\* panel and every timer, with every write succeeding; further documents
\* are loaded by the navigations of the script alone.
InitStore == InitWith(InitStores, Addresses)

NextStore ==
    \/ InitAgain
    \/ InitTimerFires
    \/ ApplyTimerFires
    \/ NavigateTimerFires
    \/ Navigate
    \/ UserSelects
    \/ UserClears
    \/ UserClearsAll
    \/ UserTogglesPersistence
    \/ UserAddsSite
    \/ UserRemovesSite

SpecStore == InitStore /\ [][NextStore]_vars

\* C35: right after selectFilter, clearFilter, clearAllFilters, the enabling
\* of a category's persistence or removeCustomSite, every category whose
\* selection or flag the operation changed and whose flag is now set has
\* its selection in memory as its stored value.
C35_StoredFollowsMemory ==
    [][(/\ acts' = acts + 1
        /\ lastOp'.name \in {"selectFilter", "clearFilter", "clearAllFilters",
                             "togglePersistence", "removeCustomSite"})
        => \A c \in Cats :
              (/\ \/ currentFilters'[c] # currentFilters[c]
                  \/ persistenceSettings'[c] # persistenceSettings[c]
               /\ persistenceSettings'[c])
              => localStorage'[getStorageKey(c)] = currentFilters'[c]]_vars

\* the remembered, selected custom site was removed as the first operation
\* of the page: selection and stored value are both reset
C35_RemovedActiveSite ==
    /\ lastOp = Op("removeCustomSite", "site", "x_com", "removed")
    /\ acts = 1 /\ loads = 1
    /\ persistenceSettings["site"]
    /\ currentFilters["site"] = "all"
    /\ localStorage[getStorageKey("site")] = "all"

\* ----------------------------------------------------- from an empty store
InitFresh == InitWith({[ls |-> EmptyStorage, custom |-> NoCustomSites]}, Addresses)

SpecFresh == InitFresh /\ [][NextStore]_vars

\* C36: starting from an empty store, a category whose persistence flag is
\* not set never has a stored value.
C36_NoValueWithoutFlag ==
    \A c \in Cats : ~persistenceSettings[c] => localStorage[getStorageKey(c)] = NULL

\* a result language was selected and stored under the flag set by default,
\* then its persistence was disabled: the flag is stored as off, the value
\* is gone
C36_DisabledAfterSelect ==
    /\ lastOp = Op("togglePersistence", "searchLang", "false", "toggled")
    /\ acts = 2 /\ loads = 1
    /\ location.lr = <<>>
    /\ localStorage[getPersistStorageKey("searchLang")] = "false"
    /\ localStorage[getStorageKey("searchLang")] = NULL

\* C37: the load-time sequence (the start of the script, the inbound parse,
\* the consistency check and the corrective apply) writes no filter value
\* and no persistence flag: the store is the same before and after.
C37_LoadWritesNothing ==
    [][lastOp'.name \in {"load", "delayedInitialization"}
        => localStorage' = localStorage]_vars

\* the parse took a result language from the address while another one is
\* stored: the stored one is still there while the corrective navigation
\* is pending
C37_AdoptedInMemoryOnly ==
    /\ lastOp.name = "delayedInitialization" /\ href.pending
    /\ persistenceSettings["searchLang"]
    /\ localStorage[getStorageKey("searchLang")] = "tr"
    /\ currentFilters["searchLang"] = "en"

\* ------------------------------------------------------------ notifications
\* Messages are sequences of atoms as the other strings; '&', '<' and '>'
\* are atoms of their own.
isValidNonEmptyString(value) == Trim(value) # <<>>

EscapeAtom(a) ==
    CASE a = "&" -> "&amp;"
      [] a = "<" -> "&lt;"
      [] a = ">" -> "&gt;"
      [] OTHER -> a

\* div.textContent = str; return div.innerHTML
sanitizeHTML(str) ==
    IF isValidNonEmptyString(str) THEN [i \in 1..Len(str) |-> EscapeAtom(str[i])] ELSE <<>>

\* showToast that stores text and time of every valid message, suppressed
\* or not: the variant against which the early return is measured
ToastStateRefreshed(ts, text, now, duplicate) ==
    [lastMessage |-> text, lastTimestamp |-> now]

\* toastState after the test for a duplicate: the return at line 1949 comes
\* before the two assignments
ToastStateAfter(ts, text, now, duplicate) ==
    IF duplicate THEN ts ELSE [lastMessage |-> text, lastTimestamp |-> now]

showToast(message) ==
    IF ~isValidNonEmptyString(message)
    THEN /\ toastLog' = Append(toastLog, [message |-> message, at |-> clock,
                                          outcome |-> "ignored"])
         /\ lastOp' = Op("showToast", "", "", "ignored")
         /\ UNCHANGED toastState
    ELSE LET sanitizedMessage == sanitizeHTML(Trim(message))
             duplicate == /\ toastState.lastMessage = sanitizedMessage
                          /\ clock - toastState.lastTimestamp < DEDUP_WINDOW
             outcome == IF duplicate THEN "suppressed" ELSE "shown"
         IN /\ toastState' = ToastStateAfter(toastState, sanitizedMessage, clock, duplicate)
            /\ toastLog' = Append(toastLog, [message |-> message, at |-> clock,
                                             outcome |-> outcome])
            /\ lastOp' = Op("showToast", "", "", outcome)

\* everything of the page but the notifications and the debounced handlers
pageVars == <<localStorage, storedCustomSites, filtersSite, persistenceSettings,
              currentFilters, location, href, timers, advancedSearchInitialized,
              widget, today, loads, acts, initRuns, correctiveNavs>>

\* the messages the operations of the panel pass to showToast, one of them
\* also with blanks around it, one with a site name that holds '&', and a
\* blank one
ToastMessages ==
    { <<"All", " ", "filters", " ", "cleared">>,
      <<" ", "All", " ", "filters", " ", "cleared", " ">>,
      <<"Site", " ", "removed">>,
      <<"R", "&", "D", " ", "selected">>,
      <<" ">> }

\* the time that passes between two events, in ms: half the window of the
\* duplicate test, one ms less and one ms more
ToastTicks == {499, 500, 501}

TimePasses(d, limit) ==
    /\ clock + d <= limit
    /\ clock' = clock + d
    /\ lastOp' = Op("tick", "", "", "")
    /\ UNCHANGED <<pageVars, toastState, toastLog, debounceTimers, timeout, debounceLog>>

ToastTimePasses == \E d \in ToastTicks : TimePasses(d, MaxToastTime)

\* an operation of the panel reaches its showToast
ToastRequested ==
    /\ Len(toastLog) < MaxToasts
    /\ \E m \in ToastMessages : showToast(m)
    /\ UNCHANGED <<pageVars, clock, debounceTimers, timeout, debounceLog>>

InitToast ==
    InitWith({[ls |-> EmptyStorage, custom |-> NoCustomSites]}, {HomePage})

NextToast ==
    \/ ToastRequested
    \/ ToastTimePasses

SpecToast == InitToast /\ [][NextToast]_vars

\* the calls so far that put a notification on the page
ShownCalls == {i \in 1..Len(toastLog) : toastLog[i].outcome = "shown"}

\* the text a message is displayed with
DisplayedText(message) == sanitizeHTML(Trim(message))

\* C38: a message is suppressed exactly when it is the message shown most
\* recently and less than 1000 ms have passed since that one was shown;
\* a suppressed message leaves that time as it is, and another message
\* shown in between is then the one compared with.
C38_SuppressedIffRecentDuplicate ==
    [][(Len(toastLog') = Len(toastLog) + 1 /\ toastLog'[Len(toastLog')].outcome # "ignored")
        => LET call == toastLog'[Len(toastLog')]
               recent == /\ ShownCalls # {}
                         /\ LET last == toastLog[CHOOSE i \in ShownCalls :
                                                    \A j \in ShownCalls : j <= i]
                            IN /\ DisplayedText(call.message) = DisplayedText(last.message)
                               /\ call.at - last.at < 1000
           IN (call.outcome = "suppressed") <=> recent]_vars

\* the same message three times: shown, suppressed within the window, and
\* shown again once 1000 ms have passed since the first, less than 1000 ms
\* after the suppressed one
C38_ShownAfterSuppressed ==
    /\ Len(toastLog) = 3
    /\ toastLog[1].outcome = "shown"
    /\ toastLog[2].outcome = "suppressed"
    /\ toastLog[3].outcome = "shown"
    /\ DisplayedText(toastLog[3].message) = DisplayedText(toastLog[1].message)
    /\ toastLog[3].at - toastLog[2].at < 1000
    /\ toastLog[3].at - toastLog[1].at >= 1000

\* ------------------------------------------------------- debounced handlers
\* debounce(func, wait) of setupResponsiveHandlers: the resize handler
\* waits CONFIG.DEBOUNCE_DELAY, the scroll handler half of it
Wait(h) == IF h = "resize" THEN DEBOUNCE_DELAY ELSE DEBOUNCE_DELAY \div 2

\* clearTimeout that cancels nothing: the variant against which the
\* cancelling of the pending callback is measured
clearTimeoutNothing(pending, id) == pending

\* clearTimeout(id): the callback with that id, if it is pending, is gone
clearTimeout(pending, id) == {t \in pending : t.id # id}

\* executedFunction(...args) of the handler h: the pending callback is
\* cancelled and a new one, holding these args, is set
executedFunction(h, args) ==
    LET id == Len(debounceLog) + 1
    IN /\ debounceTimers' = clearTimeout(debounceTimers, timeout[h])
                             \cup {[id |-> id, handler |-> h, due |-> clock + Wait(h),
                                    args |-> args]}
       /\ timeout' = [timeout EXCEPT ![h] = id]
       /\ debounceLog' = Append(debounceLog, [kind |-> "call", handler |-> h,
                                              args |-> args, at |-> clock])
       /\ lastOp' = Op("debounced", h, "", "scheduled")

\* later() of a callback that is due: clearTimeout(timeout), then func(...args)
later(t) ==
    /\ clock >= t.due
    /\ debounceTimers' = clearTimeout(debounceTimers \ {t}, timeout[t.handler])
    /\ debounceLog' = Append(debounceLog, [kind |-> "run", handler |-> t.handler,
                                           args |-> t.args, at |-> clock])
    /\ lastOp' = Op("later", t.handler, "", "ran")
    /\ UNCHANGED timeout

\* the time between two events, in ms: the wait of the scroll handler, half
\* the wait of the resize handler, and one ms less
DebounceTicks == {74, 75}

CallsSoFar == Cardinality({i \in 1..Len(debounceLog) : debounceLog[i].kind = "call"})

\* the window is resized or scrolled; the event object, which is the args
\* of the call, is a new one every time
WindowEvent ==
    /\ CallsSoFar < MaxCalls
    /\ \E h \in Handlers :
          /\ clock + Wait(h) + 75 <= MaxDebounceTime
          /\ executedFunction(h, Len(debounceLog) + 1)
    /\ UNCHANGED <<pageVars, clock, toastState, toastLog>>

DebounceTimerFires ==
    /\ \E t \in debounceTimers : later(t)
    /\ UNCHANGED <<pageVars, clock, toastState, toastLog>>

DebounceTimePasses == \E d \in DebounceTicks : TimePasses(d, MaxDebounceTime)

InitDebounce ==
    InitWith({[ls |-> EmptyStorage, custom |-> NoCustomSites]}, {HomePage})

NextDebounce ==
    \/ WindowEvent
    \/ DebounceTimerFires
    \/ DebounceTimePasses

\* time passes and the browser runs a callback that is due
SpecDebounce == InitDebounce /\ [][NextDebounce]_vars /\ WF_vars(NextDebounce)

PendingOf(pending, h) == {t \in pending : t.handler = h}

CallsOf(h) == {i \in 1..Len(debounceLog) :
                  debounceLog[i].kind = "call" /\ debounceLog[i].handler = h}

LastCallOf(h) == CHOOSE i \in CallsOf(h) : \A j \in CallsOf(h) : j <= i

\* the wrapped function of h has run since the last call of h, once
RanOnceSinceLastCall(h) ==
    Cardinality({i \in (LastCallOf(h) + 1)..Len(debounceLog) :
                    /\ debounceLog[i].kind = "run"
                    /\ debounceLog[i].handler = h}) = 1

\* C39: at most one callback per debounced handler is pending; a call
\* leaves the callback it sets as the only pending one of its handler; the
\* wrapped function runs no earlier than the wait after the last call, with
\* the args of that call; and once the calls have ended, every handler that
\* was called has run exactly once since its last call.
C39_BurstCoalesced ==
    /\ [](\A h \in Handlers : Cardinality(PendingOf(debounceTimers, h)) <= 1)
    /\ [][\A h \in Handlers :
            /\ (lastOp'.name = "debounced" /\ lastOp'.cat = h)
                => \E t \in debounceTimers' :
                      /\ PendingOf(debounceTimers', h) = {t}
                      /\ t.due = clock + Wait(h)
                      /\ t.args = debounceLog'[Len(debounceLog')].args
            /\ (lastOp'.name = "later" /\ lastOp'.cat = h)
                => LET run == debounceLog'[Len(debounceLog')]
                       call == debounceLog[LastCallOf(h)]
                   IN /\ run.args = call.args
                      /\ run.at >= call.at + Wait(h)
                      /\ PendingOf(debounceTimers', h) = {}
                      /\ RanOnceSinceLastCall(h)']_vars
    /\ <>[](\A h \in Handlers : CallsOf(h) # {} => RanOnceSinceLastCall(h))

\* a burst of three resize events, each before the wait of the one before
\* had passed, and then one run, with the args of the third
C39_BurstOfThreeRanOnce ==
    /\ Len(debounceLog) = 4
    /\ \A i \in 1..3 : debounceLog[i].kind = "call" /\ debounceLog[i].handler = "resize"
    /\ debounceLog[2].at > debounceLog[1].at
    /\ debounceLog[3].at > debounceLog[2].at
    /\ debounceLog[3].at < debounceLog[1].at + DEBOUNCE_DELAY + 75
    /\ debounceLog[4].kind = "run"
    /\ debounceLog[4].args = debounceLog[3].args
    /\ debounceTimers = {}

====
